---- MODULE Spec2Model ----
(***************************************************************************)
(* agent-device daemon: lease registry, request pipeline and singleton     *)
(* lock, modelled from src/src/daemon.ts and src/src/daemon/*.ts.           *)
(*                                                                         *)
(* Strings are sequences of one-character strings, so that trim, the       *)
(* character-class tests and toLowerCase are computed as the code does.    *)
(* The JavaScript value undefined is the sentinel Undef; an optional       *)
(* number is <<>> (undefined / not an integer) or <<n>>.                   *)
(***************************************************************************)
EXTENDS Integers, Sequences, FiniteSets, TLC

VARIABLES
    options,        \* LeaseRegistryOptions the registry was constructed with
    now,            \* the clock read by this.now()
    leases,         \* LeaseRegistry.leases: leaseId -> SimulatorLease
    runBindings,    \* LeaseRegistry.runBindings: bindingKey -> leaseId
    minted,         \* number of lease ids drawn from crypto.randomBytes so far
    releasedIds,    \* history: lease ids removed by a successful releaseLease
    call,           \* the most recent registry call: operation and outcome
    sessions,       \* SessionStore: session name -> session (device, journal)
    opening,        \* open requests suspended between the in-use check and set
    last,           \* the most recent request handled and its response
    handles,        \* the recorder and log-stream processes that are running
    stopCalls,      \* the stop calls the most recent request made, in order
    batch,          \* the batch request being handled: its steps and progress
    http,           \* the HTTP request being served: body, envelope, response
    bootstrap,      \* a client's ensureDaemon: its position, locals and the
                    \* state directory and processes it sees
    peers,          \* socket connections side by side: count and ids in flight
    lockFile,       \* daemon.lock in the state directory
    infoFile,       \* daemon.json in the state directory
    daemons,        \* the daemon processes being launched: position and locals
    startup,        \* a daemon inside writeInfo: its position, the bytes of
                    \* daemon.json on disk, and what a client's reads returned
    unsent,         \* lines the client of the connection has yet to send
    buffer,         \* createSocketServer: the lines received and not yet taken
    awaiting,       \* requests of the connection inside await handleRequest
    inFlightRequests,   \* createSocketServer: inFlightRequests
    activeRequestIds,   \* createSocketServer: activeRequestIds
    canceledInFlight,   \* createSocketServer: canceledInFlight
    canceledRequests,   \* request-cancel: the ids marked canceled
    destroyed,      \* socket.destroyed
    abortPolls,     \* polls left to the abort loop started on disconnect
    begun,          \* history: the requests in the order their handling began
    written,        \* history: the responses in the order they were written
    shuttingDown,   \* start: shuttingDown
    connections,    \* connections open on the daemon's servers
    runnerSessions, \* the active iOS runner sessions
    journaled,      \* sessions whose journal writeSessionLog has written
    drained,        \* history: the steps of shutdown in the order they were done
    triggers,       \* history: the shutdown triggers received, each with whether
                    \* its call of shutdown went past the shuttingDown test
    exitCode        \* process.exit code of the daemon, -1 while it runs

registryVars == <<options, now, leases, runBindings, minted, releasedIds>>
sessionVars ==
    <<sessions, opening, last, handles, stopCalls, batch, http, bootstrap, peers>>
lockVars == <<lockFile, infoFile, daemons, startup>>
socketVars ==
    <<unsent, buffer, awaiting, inFlightRequests, activeRequestIds, canceledInFlight,
      canceledRequests, destroyed, abortPolls, begun, written>>
shutdownVars ==
    <<shuttingDown, connections, runnerSessions, journaled, drained, triggers, exitCode>>
daemonVars == <<registryVars, call, sessionVars, lockVars, shutdownVars>>
vars == <<daemonVars, socketVars>>

----------------------------------------------------------------------------
(* Bounds of the model *)

MaxTime == 1
MaxLeases == 2

----------------------------------------------------------------------------
(* Strings *)

Undef == <<"undefined">>

LowerSeq == <<"a","b","c","d","e","f","g","h","i","j","k","l","m",
              "n","o","p","q","r","s","t","u","v","w","x","y","z">>
UpperSeq == <<"A","B","C","D","E","F","G","H","I","J","K","L","M",
              "N","O","P","Q","R","S","T","U","V","W","X","Y","Z">>
DigitChars == {"0","1","2","3","4","5","6","7","8","9"}
LowerChars == {LowerSeq[i] : i \in 1..26}
UpperChars == {UpperSeq[i] : i \in 1..26}
HexChars == DigitChars \cup {"a","b","c","d","e","f"} \cup {"A","B","C","D","E","F"}
IdChars == LowerChars \cup UpperChars \cup DigitChars \cup {".", "_", "-"}

RECURSIVE TrimStart(_)
TrimStart(s) == IF s # <<>> /\ Head(s) = " " THEN TrimStart(Tail(s)) ELSE s

RECURSIVE TrimEnd(_)
TrimEnd(s) ==
    IF s # <<>> /\ s[Len(s)] = " " THEN TrimEnd(SubSeq(s, 1, Len(s) - 1)) ELSE s

Trim(s) == TrimEnd(TrimStart(s))

LowerOf == [c \in UpperChars |-> LowerSeq[CHOOSE i \in 1..26 : UpperSeq[i] = c]]
ToLowerChar(c) == IF c \in UpperChars THEN LowerOf[c] ELSE c

ToLowerCase(s) == [i \in 1..Len(s) |-> ToLowerChar(s[i])]

\* JavaScript truthiness of an optional string: undefined and '' are falsy
Truthy(raw) == raw # Undef /\ raw # <<>>

\* a ?? b
Coalesce(a, b) == IF a # Undef THEN a ELSE b

MatchesClass(v, chars, lo, hi) ==
    /\ Len(v) >= lo
    /\ Len(v) <= hi
    /\ \A i \in 1..Len(v) : v[i] \in chars

----------------------------------------------------------------------------
(* Normalisers: daemon/config.ts and daemon/lease-registry.ts *)

ID_MAX_LEN == 128
LEASE_ID_MIN_LEN == 16

normalizeTenantId(raw) ==
    IF ~Truthy(raw) THEN Undef
    ELSE LET value == Trim(raw) IN
         IF value = <<>> THEN Undef
         ELSE IF ~MatchesClass(value, IdChars, 1, ID_MAX_LEN) THEN Undef
         ELSE value

normalizeRunId(raw) ==
    IF ~Truthy(raw) THEN Undef
    ELSE LET value == Trim(raw) IN
         IF value = <<>> THEN Undef
         ELSE IF ~MatchesClass(value, IdChars, 1, ID_MAX_LEN) THEN Undef
         ELSE value

normalizeLeaseId(raw) ==
    IF ~Truthy(raw) THEN Undef
    ELSE LET value == Trim(raw) IN
         IF value = <<>> THEN Undef
         ELSE IF ~MatchesClass(value, HexChars, LEASE_ID_MIN_LEN, ID_MAX_LEN) THEN Undef
         ELSE ToLowerCase(value)

IosSimulator == <<"i","o","s","-","s","i","m","u","l","a","t","o","r">>

\* [ok, backend]: ok = FALSE is the INVALID_ARGS throw
normalizeLeaseBackend(raw) ==
    LET value == ToLowerCase(Trim(Coalesce(raw, <<>>))) IN
    IF value = <<>> \/ value = IosSimulator
    THEN [ok |-> TRUE, backend |-> IosSimulator]
    ELSE [ok |-> FALSE, backend |-> value]

----------------------------------------------------------------------------
(* The callers' inputs *)

\* crypto.randomBytes(16).toString('hex'): 32 lower-case hex digits, never
\* drawn twice; the k-th id drawn ends in the k-th digit of HexTail
HexTail == <<"a","b","c","d","e","f">>
LeaseIdOf(k) == [i \in 1..32 |-> IF i = 32 THEN HexTail[k] ELSE "0"]
TenantA == <<"a">>
TenantB == <<"b">>
Run1 == <<"1">>
Run2 == <<"2">>

\* raw inputs: absent, well-formed, padded with white space, malformed
PaddedA == <<" ", "a">>
BadTenant == <<"a", " ", "b">>
BadRun == <<"!">>
ShortLeaseId == <<"a", "b">>
UnknownLeaseId == [i \in 1..LEASE_ID_MIN_LEN |-> "f"]
UpperPadded(id) == <<" ">> \o [i \in 1..Len(id) |-> IF id[i] = "a" THEN "A" ELSE id[i]]
MixedCaseBackend == <<"I","O","S","-","s","i","m","u","l","a","t","o","r">>
BadBackend == <<"x">>
MintableIds == {LeaseIdOf(k) : k \in 1..MaxLeases}
TenantInputs == {Undef, <<>>, TenantA, TenantB, PaddedA, BadTenant}
RunInputs == {Undef, <<>>, Run1, Run2, BadRun}
LeaseIdInputs ==
    {Undef, <<>>, ShortLeaseId, UnknownLeaseId, UpperPadded(LeaseIdOf(1))} \cup MintableIds

\* the normalisers over the inputs, computed once
TenantIdOf == [raw \in TenantInputs |-> normalizeTenantId(raw)]
RunIdOf == [raw \in RunInputs |-> normalizeRunId(raw)]
LeaseIdFor == [raw \in LeaseIdInputs |-> normalizeLeaseId(raw)]

Request(tenantId, runId, leaseId, backend, ttlMs) ==
    [tenantId |-> tenantId, runId |-> runId, leaseId |-> leaseId,
     backend |-> backend, ttlMs |-> ttlMs]

\* each set holds the well-formed calls and, one field at a time, the
\* absent, padded, malformed and out-of-range ones
AllocateRequests ==
    {Request(t, Run1, Undef, Undef, ttl) : t \in {TenantA, TenantB}, ttl \in {<<>>, <<1>>}}
    \cup {Request(t, Run1, Undef, Undef, <<>>) : t \in {Undef, PaddedA, BadTenant}}
    \cup {Request(TenantA, r, Undef, Undef, <<>>) : r \in {Undef, BadRun}}
    \cup {Request(TenantA, Run1, Undef, Undef, ttl) : ttl \in {<<0>>, <<3>>, <<5000>>}}
    \cup {Request(TenantA, Run1, Undef, b, <<>>) : b \in {MixedCaseBackend, BadBackend}}
HeartbeatRequests ==
    {Request(Undef, Undef, id, Undef, <<>>) : id \in LeaseIdInputs \ {<<>>}}
    \cup {Request(Undef, Undef, LeaseIdOf(1), Undef, ttl) : ttl \in {<<0>>, <<1>>, <<3>>}}
    \cup {Request(t, Undef, LeaseIdOf(1), Undef, <<>>) : t \in {TenantA, TenantB, BadTenant}}
    \cup {Request(Undef, r, LeaseIdOf(1), Undef, <<>>) : r \in {Run1, Run2, BadRun}}
ReleaseRequests ==
    {Request(Undef, Undef, id, Undef, <<>>) : id \in LeaseIdInputs \ {<<>>}}
    \cup {Request(t, Undef, LeaseIdOf(1), Undef, <<>>) : t \in {TenantA, TenantB, BadTenant}}
    \cup {Request(Undef, r, LeaseIdOf(1), Undef, <<>>) : r \in {Run1, Run2, BadRun}}
AdmissionRequests ==
    {Request(t, Run1, id, Undef, <<>>) :
        t \in {TenantA, TenantB},
        id \in MintableIds \cup {UnknownLeaseId, UpperPadded(LeaseIdOf(1))}}
    \cup {Request(t, Run1, LeaseIdOf(1), Undef, <<>>) : t \in {Undef, PaddedA, BadTenant}}
    \cup {Request(TenantA, r, LeaseIdOf(1), Undef, <<>>) : r \in {Undef, Run2, BadRun}}
    \cup {Request(TenantA, Run1, id, Undef, <<>>) : id \in {Undef, ShortLeaseId}}
    \cup {Request(TenantA, Run1, LeaseIdOf(1), b, <<>>) :
            b \in {MixedCaseBackend, BadBackend}}
----------------------------------------------------------------------------
(* LeaseRegistry: daemon/lease-registry.ts *)

DEFAULT_LEASE_TTL_MS == 60000
MIN_LEASE_TTL_MS == 5000
MAX_LEASE_TTL_MS == 600000

isInteger(raw) == Len(raw) = 1
Max(a, b) == IF a >= b THEN a ELSE b

\* constructor: the four private readonly fields, computed from the options
maxActiveSimulatorLeases ==
    IF isInteger(options.maxActiveSimulatorLeases)
    THEN Max(0, options.maxActiveSimulatorLeases[1]) ELSE 0
defaultLeaseTtlMs ==
    IF isInteger(options.defaultLeaseTtlMs)
    THEN Max(1, options.defaultLeaseTtlMs[1]) ELSE DEFAULT_LEASE_TTL_MS
minLeaseTtlMs ==
    IF isInteger(options.minLeaseTtlMs)
    THEN Max(1, options.minLeaseTtlMs[1]) ELSE MIN_LEASE_TTL_MS
maxLeaseTtlMs ==
    IF isInteger(options.maxLeaseTtlMs)
    THEN Max(minLeaseTtlMs, options.maxLeaseTtlMs[1]) ELSE MAX_LEASE_TTL_MS

NoLease ==
    [leaseId |-> <<>>, tenantId |-> <<>>, runId |-> <<>>, backend |-> <<>>,
     createdAt |-> 0, heartbeatAt |-> 0, expiresAt |-> 0]

\* outcome of a registry call: a return value or a thrown AppError
Returned(lease, released) ==
    [ok |-> TRUE, code |-> "OK", reason |-> "", lease |-> lease, released |-> released]
Thrown(code, reason) ==
    [ok |-> FALSE, code |-> code, reason |-> reason, lease |-> NoLease, released |-> FALSE]

\* Map.set and Map.delete
MapSet(m, k, v) == [x \in (DOMAIN m) \cup {k} |-> IF x = k THEN v ELSE m[x]]
MapDelete(m, k) == [x \in (DOMAIN m) \ {k} |-> m[x]]
EmptyMap == [x \in {} |-> x]

bindingKey(tenantId, runId, backend) ==
    tenantId \o <<":">> \o runId \o <<":">> \o backend

LeaseKey(lease) == bindingKey(lease.tenantId, lease.runId, lease.backend)

\* a registry in which no lease ever counts as expired
ExpiredNever(L, t) == {}

Expired(L, t) == {id \in DOMAIN L : ~(L[id].expiresAt > t)}

\* a sweep that keeps a lease at the very tick of its expiry
cleanupExpiredLeasesLate(L, B, t) ==
    [leases |-> [id \in {x \in DOMAIN L : L[x].expiresAt >= t} |-> L[id]],
     runBindings |->
        [k \in {k \in DOMAIN B : \A id \in DOMAIN L :
                    L[id].expiresAt < t => LeaseKey(L[id]) # k} |-> B[k]]]

\* a sweep that deletes the expired leases and leaves their bindings
cleanupExpiredLeasesKeepsBindings(L, B, t) ==
    [leases |-> [id \in (DOMAIN L) \ Expired(L, t) |-> L[id]], runBindings |-> B]

cleanupExpiredLeases(L, B, t) ==
    [leases |-> [id \in (DOMAIN L) \ Expired(L, t) |-> L[id]],
     runBindings |->
        [k \in {k \in DOMAIN B : \A id \in Expired(L, t) : LeaseKey(L[id]) # k}
            |-> B[k]]]

\* a registry that never counts its leases
enforceCapacityUnlimited(L, backend) == TRUE

\* TRUE when enforceCapacity returns, FALSE when it throws
enforceCapacity(L, backend) ==
    \/ backend # IosSimulator
    \/ maxActiveSimulatorLeases <= 0
    \/ Cardinality({id \in DOMAIN L : L[id].backend = IosSimulator})
          < maxActiveSimulatorLeases

\* a ttl that is taken as supplied, whatever its value
resolveLeaseTtlMsUnbounded(raw) ==
    IF ~isInteger(raw) THEN [ok |-> TRUE, ttl |-> defaultLeaseTtlMs]
    ELSE [ok |-> TRUE, ttl |-> raw[1]]

\* [ok, ttl]: ok = FALSE is the INVALID_ARGS throw
resolveLeaseTtlMs(raw) ==
    IF ~isInteger(raw) THEN [ok |-> TRUE, ttl |-> defaultLeaseTtlMs]
    ELSE IF raw[1] < minLeaseTtlMs \/ raw[1] > maxLeaseTtlMs
         THEN [ok |-> FALSE, ttl |-> raw[1]]
         ELSE [ok |-> TRUE, ttl |-> raw[1]]

\* a refresh that forgets to extend the expiry
refreshLeaseKeepsExpiry(L, B, lease, ttlMs, t) ==
    LET updated == [lease EXCEPT !.heartbeatAt = t] IN
    [leases |-> MapSet(L, updated.leaseId, updated),
     runBindings |-> MapSet(B, LeaseKey(updated), updated.leaseId),
     lease |-> updated]

\* a refresh that restarts the lease: createdAt becomes the time of the call
refreshLeaseRestarts(L, B, lease, ttlMs, t) ==
    LET updated == [lease EXCEPT !.createdAt = t, !.heartbeatAt = t,
                                 !.expiresAt = t + ttlMs] IN
    [leases |-> MapSet(L, updated.leaseId, updated),
     runBindings |-> MapSet(B, LeaseKey(updated), updated.leaseId),
     lease |-> updated]

\* the registry after the call, and the lease returned
refreshLease(L, B, lease, ttlMs, t) ==
    LET updated == [lease EXCEPT !.heartbeatAt = t, !.expiresAt = t + ttlMs] IN
    [leases |-> MapSet(L, updated.leaseId, updated),
     runBindings |-> MapSet(B, LeaseKey(updated), updated.leaseId),
     lease |-> updated]

\* a scope check that accepts every optional tenant and run
assertOptionalScopeMatchLax(lease, tenantRaw, runRaw) == Returned(lease, FALSE)

\* ok when assertOptionalScopeMatch returns; otherwise the error it throws
assertOptionalScopeMatch(lease, tenantRaw, runRaw) ==
    LET tenantId == TenantIdOf[tenantRaw]
        runId == RunIdOf[runRaw]
    IN  IF Truthy(tenantRaw) /\ tenantId = Undef THEN Thrown("INVALID_ARGS", "")
        ELSE IF Truthy(runRaw) /\ runId = Undef THEN Thrown("INVALID_ARGS", "")
        ELSE IF tenantId # Undef /\ lease.tenantId # tenantId
             THEN Thrown("UNAUTHORIZED", "LEASE_SCOPE_MISMATCH")
        ELSE IF runId # Undef /\ lease.runId # runId
             THEN Thrown("UNAUTHORIZED", "LEASE_SCOPE_MISMATCH")
        ELSE Returned(lease, FALSE)

\* Every operation below yields the registry after the call (leases,
\* runBindings, minted) and its outcome res.
Outcome(L, B, M, res) == [leases |-> L, runBindings |-> B, minted |-> M, res |-> res]

allocateLease(request) ==
    LET backend == normalizeLeaseBackend(request.backend)
        tenantId == TenantIdOf[request.tenantId]
        runId == RunIdOf[request.runId]
        swept == cleanupExpiredLeases(leases, runBindings, now)
        leaseTtlMs == resolveLeaseTtlMs(request.ttlMs)
        key == bindingKey(tenantId, runId, backend.backend)
        bound == key \in DOMAIN swept.runBindings
        existingId == swept.runBindings[key]
        stale == MapDelete(swept.runBindings, key)
        B0 == IF bound THEN stale ELSE swept.runBindings
        lease == [leaseId |-> LeaseIdOf(minted + 1), tenantId |-> tenantId,
                  runId |-> runId, backend |-> backend.backend,
                  createdAt |-> now, heartbeatAt |-> now,
                  expiresAt |-> now + leaseTtlMs.ttl]
    IN  IF ~backend.ok THEN Outcome(leases, runBindings, minted, Thrown("INVALID_ARGS", ""))
        ELSE IF tenantId = Undef
             THEN Outcome(leases, runBindings, minted, Thrown("INVALID_ARGS", ""))
        ELSE IF runId = Undef
             THEN Outcome(leases, runBindings, minted, Thrown("INVALID_ARGS", ""))
        ELSE IF ~leaseTtlMs.ok
             THEN Outcome(swept.leases, swept.runBindings, minted, Thrown("INVALID_ARGS", ""))
        ELSE IF bound /\ existingId \in DOMAIN swept.leases
             THEN LET r == refreshLease(swept.leases, swept.runBindings,
                                        swept.leases[existingId], leaseTtlMs.ttl, now)
                  IN  Outcome(r.leases, r.runBindings, minted, Returned(r.lease, FALSE))
        ELSE IF ~enforceCapacity(swept.leases, backend.backend)
             THEN Outcome(swept.leases, B0, minted,
                          Thrown("COMMAND_FAILED", "LEASE_CAPACITY_EXCEEDED"))
        ELSE Outcome(MapSet(swept.leases, lease.leaseId, lease),
                     MapSet(B0, key, lease.leaseId),
                     minted + 1, Returned(lease, FALSE))

heartbeatLease(request) ==
    LET leaseId == LeaseIdFor[request.leaseId]
        swept == cleanupExpiredLeases(leases, runBindings, now)
        lease == swept.leases[leaseId]
        scope == assertOptionalScopeMatch(lease, request.tenantId, request.runId)
        leaseTtlMs == resolveLeaseTtlMs(request.ttlMs)
    IN  IF leaseId = Undef
        THEN Outcome(leases, runBindings, minted, Thrown("INVALID_ARGS", ""))
        ELSE IF leaseId \notin DOMAIN swept.leases
             THEN Outcome(swept.leases, swept.runBindings, minted,
                          Thrown("UNAUTHORIZED", "LEASE_NOT_FOUND"))
        ELSE IF ~scope.ok THEN Outcome(swept.leases, swept.runBindings, minted, scope)
        ELSE IF ~leaseTtlMs.ok
             THEN Outcome(swept.leases, swept.runBindings, minted, Thrown("INVALID_ARGS", ""))
        ELSE LET r == refreshLease(swept.leases, swept.runBindings, lease,
                                   leaseTtlMs.ttl, now)
             IN  Outcome(r.leases, r.runBindings, minted, Returned(r.lease, FALSE))

\* a release that removes the run binding and leaves the lease stored
releaseLeaseBindingOnly(request) ==
    LET leaseId == LeaseIdFor[request.leaseId]
        swept == cleanupExpiredLeases(leases, runBindings, now)
        lease == swept.leases[leaseId]
        scope == assertOptionalScopeMatch(lease, request.tenantId, request.runId)
    IN  IF leaseId = Undef
        THEN Outcome(leases, runBindings, minted, Thrown("INVALID_ARGS", ""))
        ELSE IF leaseId \notin DOMAIN swept.leases
             THEN Outcome(swept.leases, swept.runBindings, minted, Returned(NoLease, FALSE))
        ELSE IF ~scope.ok THEN Outcome(swept.leases, swept.runBindings, minted, scope)
        ELSE Outcome(swept.leases, MapDelete(swept.runBindings, LeaseKey(lease)),
                     minted, Returned(NoLease, TRUE))

\* a release that fails on a lease that is not stored
releaseLeaseStrict(request) ==
    LET leaseId == LeaseIdFor[request.leaseId]
        swept == cleanupExpiredLeases(leases, runBindings, now)
    IN  IF leaseId \in DOMAIN swept.leases
        THEN Outcome(MapDelete(swept.leases, leaseId),
                     MapDelete(swept.runBindings, LeaseKey(swept.leases[leaseId])),
                     minted, Returned(NoLease, TRUE))
        ELSE Outcome(swept.leases, swept.runBindings, minted,
                     Thrown("UNAUTHORIZED", "LEASE_NOT_FOUND"))

releaseLease(request) ==
    LET leaseId == LeaseIdFor[request.leaseId]
        swept == cleanupExpiredLeases(leases, runBindings, now)
        lease == swept.leases[leaseId]
        scope == assertOptionalScopeMatch(lease, request.tenantId, request.runId)
    IN  IF leaseId = Undef
        THEN Outcome(leases, runBindings, minted, Thrown("INVALID_ARGS", ""))
        ELSE IF leaseId \notin DOMAIN swept.leases
             THEN Outcome(swept.leases, swept.runBindings, minted, Returned(NoLease, FALSE))
        ELSE IF ~scope.ok THEN Outcome(swept.leases, swept.runBindings, minted, scope)
        ELSE Outcome(MapDelete(swept.leases, leaseId),
                     MapDelete(swept.runBindings, LeaseKey(lease)),
                     minted, Returned(NoLease, TRUE))

\* an admission that looks the lease up and compares no scope
assertLeaseAdmissionAnyScope(request) ==
    LET leaseId == LeaseIdFor[request.leaseId]
        swept == cleanupExpiredLeases(leases, runBindings, now)
    IN  IF leaseId = Undef
        THEN Outcome(leases, runBindings, minted, Thrown("INVALID_ARGS", ""))
        ELSE IF leaseId \notin DOMAIN swept.leases
             THEN Outcome(swept.leases, swept.runBindings, minted,
                          Thrown("UNAUTHORIZED", "LEASE_NOT_FOUND"))
        ELSE Outcome(swept.leases, swept.runBindings, minted, Returned(NoLease, FALSE))

assertLeaseAdmission(request) ==
    LET backend == normalizeLeaseBackend(request.backend)
        tenantId == TenantIdOf[request.tenantId]
        runId == RunIdOf[request.runId]
        leaseId == LeaseIdFor[request.leaseId]
        swept == cleanupExpiredLeases(leases, runBindings, now)
        lease == swept.leases[leaseId]
    IN  IF ~backend.ok THEN Outcome(leases, runBindings, minted, Thrown("INVALID_ARGS", ""))
        ELSE IF tenantId = Undef
             THEN Outcome(leases, runBindings, minted, Thrown("INVALID_ARGS", ""))
        ELSE IF runId = Undef
             THEN Outcome(leases, runBindings, minted, Thrown("INVALID_ARGS", ""))
        ELSE IF leaseId = Undef
             THEN Outcome(leases, runBindings, minted, Thrown("INVALID_ARGS", ""))
        ELSE IF leaseId \notin DOMAIN swept.leases
             THEN Outcome(swept.leases, swept.runBindings, minted,
                          Thrown("UNAUTHORIZED", "LEASE_NOT_FOUND"))
        ELSE IF lease.backend # backend.backend \/ lease.tenantId # tenantId
                    \/ lease.runId # runId
             THEN Outcome(swept.leases, swept.runBindings, minted,
                          Thrown("UNAUTHORIZED", "LEASE_SCOPE_MISMATCH"))
        ELSE Outcome(swept.leases, swept.runBindings, minted, Returned(NoLease, FALSE))

\* the registry after the sweep; the array returned is its leases' values
listActiveLeases ==
    LET swept == cleanupExpiredLeases(leases, runBindings, now) IN
    Outcome(swept.leases, swept.runBindings, minted, Returned(NoLease, FALSE))

----------------------------------------------------------------------------
(* The registry driven directly, and the clock *)

NoRequest == Request(Undef, Undef, Undef, Undef, <<>>)

\* the registries the daemon can construct (AGENT_DEVICE_LEASE_* and
\* AGENT_DEVICE_MAX_SIMULATOR_LEASES), in clock ticks
RegistryOptions ==
    {[maxActiveSimulatorLeases |-> cap, defaultLeaseTtlMs |-> <<2>>,
      minLeaseTtlMs |-> <<1>>, maxLeaseTtlMs |-> <<2>>] : cap \in {<<>>, <<1>>}}
    \cup {[maxActiveSimulatorLeases |-> cap, defaultLeaseTtlMs |-> <<>>,
           minLeaseTtlMs |-> <<>>, maxLeaseTtlMs |-> <<>>] : cap \in {<<>>, <<0>>}}

\* what is kept of a call: the operation, the lease id it names (as the
\* registry reads it), the ttlMs it supplies, its outcome, the ids its sweep
\* removed, the ids listed
Called(op, request, out) ==
    [op |-> op, target |-> LeaseIdFor[request.leaseId], ttlMs |-> request.ttlMs,
     res |-> out.res,
     swept |-> Expired(leases, now),
     listed |-> IF op = "listActiveLeases" THEN DOMAIN out.leases ELSE {}]

RegistryInit ==
    /\ now = 0
    /\ leases = EmptyMap
    /\ runBindings = EmptyMap
    /\ minted = 0
    /\ releasedIds = {}

\* the registry and its history after a call with outcome out that named target
RegistryStep(out, target) ==
    /\ out.minted <= MaxLeases
    /\ leases' = out.leases
    /\ runBindings' = out.runBindings
    /\ minted' = out.minted
    /\ releasedIds' = releasedIds \cup (IF out.res.released THEN {target} ELSE {})
    /\ UNCHANGED <<options, now>>

Tick ==
    /\ now < MaxTime
    /\ now' = now + 1
    /\ UNCHANGED <<options, leases, runBindings, minted, releasedIds, call>>
    /\ UNCHANGED <<sessionVars, lockVars, socketVars, shutdownVars>>

AllocateLease(request) ==
    \E out \in {allocateLease(request)} :
    /\ RegistryStep(out, LeaseIdFor[request.leaseId])
    /\ call' = Called("allocateLease", request, out)
    /\ UNCHANGED <<sessionVars, lockVars, socketVars, shutdownVars>>

HeartbeatLease(request) ==
    \E out \in {heartbeatLease(request)} :
    /\ RegistryStep(out, LeaseIdFor[request.leaseId])
    /\ call' = Called("heartbeatLease", request, out)
    /\ UNCHANGED <<sessionVars, lockVars, socketVars, shutdownVars>>

ReleaseLease(request) ==
    \E out \in {releaseLease(request)} :
    /\ RegistryStep(out, LeaseIdFor[request.leaseId])
    /\ call' = Called("releaseLease", request, out)
    /\ UNCHANGED <<sessionVars, lockVars, socketVars, shutdownVars>>

AssertLeaseAdmission(request) ==
    \E out \in {assertLeaseAdmission(request)} :
    /\ RegistryStep(out, LeaseIdFor[request.leaseId])
    /\ call' = Called("assertLeaseAdmission", request, out)
    /\ UNCHANGED <<sessionVars, lockVars, socketVars, shutdownVars>>

ListActiveLeases ==
    \E out \in {listActiveLeases} :
    /\ RegistryStep(out, Undef)
    /\ call' = Called("listActiveLeases", NoRequest, out)
    /\ UNCHANGED <<sessionVars, lockVars, socketVars, shutdownVars>>

NoCall ==
    [op |-> "new", target |-> Undef, ttlMs |-> <<>>, res |-> Returned(NoLease, FALSE),
     swept |-> {}, listed |-> {}]

\* no batch request seen: nothing invoked, no results, no response
NoBatch ==
    [phase |-> "idle", steps |-> <<>>, parent |-> <<>>, invoked |-> <<>>,
     answers |-> <<>>, results |-> <<>>, response |-> <<>>]

\* no HTTP request seen
NoHttp ==
    [phase |-> "idle", chunks |-> 0, chars |-> 0, bytes |-> 0, rpc |-> <<>>,
     hook |-> <<>>, entered |-> <<>>, status |-> 0, rpcCode |-> 0, code |-> ""]

\* no client bootstrap under way: an empty state directory, no daemon
NoBootstrap ==
    [pc |-> "init", info |-> <<>>, lock |-> <<>>, alive |-> {}, up |-> {},
     starting |-> {}, existing |-> <<>>, existingReachable |-> FALSE,
     reused |-> FALSE, stops |-> <<>>, launches |-> 0, atLaunch |-> <<>>,
     elapsed |-> 0, windows |-> 0, result |-> <<>>, sent |-> <<>>,
     builds |-> FALSE, timeouts |-> <<>>]

\* two socket connections accepted, no request on either: the locals of
\* createSocketServer's connection listener, one set for each connection
NoPeers ==
    [c \in {1, 2} |->
        [awaiting |-> <<>>, inFlightRequests |-> 0, activeRequestIds |-> {},
         canceledInFlight |-> FALSE, closed |-> FALSE]]

\* no request handled yet, no daemon being launched
IdlePipeline ==
    /\ sessions = EmptyMap
    /\ opening = {}
    /\ last = [presented |-> Undef,
               response |-> [ok |-> TRUE, code |-> "OK", reason |-> ""], stages |-> {}]
    /\ handles = {}
    /\ stopCalls = <<>>
    /\ batch = NoBatch
    /\ http = NoHttp
    /\ bootstrap = NoBootstrap
    /\ peers = NoPeers
\* the lock file at lockPath: whether it exists, the process that created it
\* and whether its payload has been written (an unwritten file parses as null)
NoLock == [exists |-> FALSE, owner |-> 0, written |-> FALSE]
\* no daemon inside writeInfo, no client reading daemon.json
NoStartup ==
    [pc |-> "idle", mode |-> "socket", exists |-> FALSE, by |-> 0, fields |-> 0,
     reads |-> <<>>]
NoLaunch ==
    lockFile = NoLock /\ infoFile = {} /\ daemons = EmptyMap /\ startup = NoStartup
\* no socket connection
NoConnection ==
    /\ unsent = <<>>
    /\ buffer = <<>>
    /\ awaiting = {}
    /\ inFlightRequests = 0
    /\ activeRequestIds = {}
    /\ canceledInFlight = FALSE
    /\ canceledRequests = {}
    /\ destroyed = FALSE
    /\ abortPolls = 0
    /\ begun = <<>>
    /\ written = <<>>
\* a daemon that no signal has reached
NoShutdown ==
    /\ shuttingDown = FALSE
    /\ connections = 0
    /\ runnerSessions = {}
    /\ journaled = {}
    /\ drained = <<>>
    /\ triggers = <<>>
    /\ exitCode = -1

LeaseInit ==
    /\ options \in RegistryOptions
    /\ RegistryInit
    /\ call = NoCall
    /\ IdlePipeline
    /\ NoLaunch
    /\ NoConnection
    /\ NoShutdown

LeaseNext ==
    \/ Tick
    \/ \E request \in AllocateRequests : AllocateLease(request)
    \/ \E request \in HeartbeatRequests : HeartbeatLease(request)
    \/ \E request \in ReleaseRequests : ReleaseLease(request)
    \/ \E request \in AdmissionRequests : AssertLeaseAdmission(request)
    \/ ListActiveLeases

LeaseSpec == LeaseInit /\ [][LeaseNext]_vars

----------------------------------------------------------------------------
(* The request pipeline: daemon.ts handleRequest and what it calls *)

MaxActions == 2
MaxOpening == 2
\* the requests a connection carries
MaxRequests == 3

Token == "token"
BadToken == "other"

\* an exemption set that has grown to hold a device command
leaseAdmissionExemptAlsoKeyboard ==
    {"session_list", "devices", "lease_allocate", "lease_heartbeat", "lease_release",
     "keyboard"}

leaseAdmissionExemptCommands ==
    {"session_list", "devices", "lease_allocate", "lease_heartbeat", "lease_release"}
selectorValidationExemptCommands == {"session_list", "devices"}

TenantMode == <<"t","e","n","a","n","t">>
PaddedTenantMode == <<" ","T","e","n","a","n","t">>
NoneMode == <<"n","o","n","e">>
Default == <<"default">>
Named == <<"s">>

\* the devices attached to the host
Ios == <<"ios">>
Android == <<"android">>
Apple == <<"apple">>
Mobile == <<"mobile">>
Tv == <<"tv">>
SetPath == <<"/", "a">>
IosDevice ==
    [id |-> <<"s", "1">>, platform |-> Ios, name |-> <<"S", "i", "m">>,
     kind |-> "simulator", target |-> Undef, simulatorSetPath |-> SetPath]
AndroidDevice ==
    [id |-> <<"e", "1">>, platform |-> Android, name |-> <<"P", "x">>,
     kind |-> "emulator", target |-> Tv, simulatorSetPath |-> Undef]

Meta(tenantId, runId, leaseId, sessionIsolation) ==
    [tenantId |-> tenantId, runId |-> runId, leaseId |-> leaseId,
     sessionIsolation |-> sessionIsolation, leaseTtlMs |-> <<>>,
     leaseBackend |-> Undef]
Flags(tenant, sessionIsolation, platform) ==
    [tenant |-> tenant, runId |-> Undef, leaseId |-> Undef,
     sessionIsolation |-> sessionIsolation, platform |-> platform,
     target |-> Undef, udid |-> Undef, serial |-> Undef, device |-> Undef,
     iosSimulatorDeviceSet |-> Undef, androidDeviceAllowlist |-> Undef,
     batchSteps |-> <<>>, batchMaxSteps |-> <<>>]
DaemonRequest(token, command, session, meta, flags) ==
    [token |-> token, command |-> command, positionals |-> <<>>, session |-> session,
     meta |-> meta, flags |-> flags]

Failure(code, reason) == [ok |-> FALSE, code |-> code, reason |-> reason]
Success == [ok |-> TRUE, code |-> "OK", reason |-> ""]
\* normalizeError: the code of the error and the reason in its details
normalizeError(res) == Failure(res.code, res.reason)

\* a mapping that answers every error with 500
statusCodeAlways500(code) == 500

statusCodeForNormalizedError(code) ==
    CASE code = "INVALID_ARGS" -> 400
      [] code = "UNAUTHORIZED" -> 401
      [] code = "SESSION_NOT_FOUND" -> 404
      [] OTHER -> 500

normalizeAliasedCommands(req) ==
    IF req.command = "click" THEN [req EXCEPT !.command = "press"] ELSE req

resolveSessionIsolationMode(raw) ==
    IF ToLowerCase(Trim(Coalesce(raw, <<>>))) = TenantMode THEN "tenant" ELSE "none"

\* a scoping that lets a request without a tenant through as it is
scopeRequestSessionTenantOptional(req) ==
    LET rawTenant == Coalesce(req.meta.tenantId, req.flags.tenant)
        tenant == TenantIdOf[rawTenant]
    IN  IF Truthy(rawTenant) /\ tenant = Undef THEN [ok |-> FALSE, req |-> req]
        ELSE [ok |-> TRUE, req |-> req]

\* a scoping that rewrites the session name whenever a tenant is supplied
scopeRequestSessionAnyMode(req) ==
    LET rawTenant == Coalesce(req.meta.tenantId, req.flags.tenant)
        tenant == TenantIdOf[rawTenant]
    IN  IF Truthy(rawTenant) /\ tenant = Undef THEN [ok |-> FALSE, req |-> req]
        ELSE IF tenant = Undef THEN [ok |-> TRUE, req |-> req]
        ELSE [ok |-> TRUE,
              req |-> [req EXCEPT
                         !.session = tenant \o <<":">> \o
                                     (IF Truthy(req.session) THEN req.session ELSE Default),
                         !.meta.tenantId = tenant,
                         !.meta.sessionIsolation = TenantMode]]

\* [ok, req]: ok = FALSE is the INVALID_ARGS throw
scopeRequestSession(req) ==
    LET isolation == resolveSessionIsolationMode(
                        Coalesce(req.meta.sessionIsolation, req.flags.sessionIsolation))
        rawTenant == Coalesce(req.meta.tenantId, req.flags.tenant)
        tenant == TenantIdOf[rawTenant]
    IN  IF Truthy(rawTenant) /\ tenant = Undef THEN [ok |-> FALSE, req |-> req]
        ELSE IF isolation # "tenant" THEN [ok |-> TRUE, req |-> req]
        ELSE IF tenant = Undef THEN [ok |-> FALSE, req |-> req]
        ELSE [ok |-> TRUE,
              req |-> [req EXCEPT
                         !.session = tenant \o <<":">> \o
                                     (IF Truthy(req.session) THEN req.session ELSE Default),
                         !.meta.tenantId = tenant,
                         !.meta.sessionIsolation = TenantMode]]

resolveLeaseScope(req) ==
    [tenantId |-> Coalesce(req.meta.tenantId, req.flags.tenant),
     runId |-> Coalesce(req.meta.runId, req.flags.runId),
     leaseId |-> Coalesce(req.meta.leaseId, req.flags.leaseId),
     leaseTtlMs |-> req.meta.leaseTtlMs,
     leaseBackend |-> req.meta.leaseBackend]

\* the registry as it is: the outcome of not calling it
Untouched == Outcome(leases, runBindings, minted, Returned(NoLease, FALSE))

\* [claimed, registry]: claimed = FALSE is the null response
handleLeaseCommands(req) ==
    LET leaseScope == resolveLeaseScope(req) IN
    CASE req.command = "lease_allocate" ->
           [claimed |-> TRUE,
            registry |-> allocateLease(Request(Coalesce(leaseScope.tenantId, <<>>),
                                               Coalesce(leaseScope.runId, <<>>), Undef,
                                               leaseScope.leaseBackend,
                                               leaseScope.leaseTtlMs))]
      [] req.command = "lease_heartbeat" ->
           [claimed |-> TRUE,
            registry |-> heartbeatLease(Request(leaseScope.tenantId, leaseScope.runId,
                                                Coalesce(leaseScope.leaseId, <<>>), Undef,
                                                leaseScope.leaseTtlMs))]
      [] req.command = "lease_release" ->
           [claimed |-> TRUE,
            registry |-> releaseLease(Request(leaseScope.tenantId, leaseScope.runId,
                                              Coalesce(leaseScope.leaseId, <<>>), Undef,
                                              <<>>))]
      [] OTHER -> [claimed |-> FALSE, registry |-> Untouched]

normalizePlatformSelector(platform) == IF platform = Apple THEN Ios ELSE platform

\* value.split(/[\s,]+/).map(trim).filter(Boolean) as a set
Separators == {" ", ","}
RECURSIVE SplitEntries(_, _)
SplitEntries(value, entry) ==
    IF value = <<>> THEN (IF entry = <<>> THEN {} ELSE {entry})
    ELSE IF Head(value) \in Separators
         THEN (IF entry = <<>> THEN {} ELSE {entry}) \cup SplitEntries(Tail(value), <<>>)
         ELSE SplitEntries(Tail(value), Append(entry, Head(value)))
parseSerialAllowlist(value) == SplitEntries(value, <<>>)

\* a selector check that compares the platform alone
assertSessionSelectorPlatformOnly(session, flags) ==
    LET normalizedPlatform == normalizePlatformSelector(flags.platform) IN
    IF Truthy(normalizedPlatform) /\ normalizedPlatform # session.device.platform
    THEN {"platform"} ELSE {}

\* the flags that assertSessionSelectorMatches pushes to mismatches; it throws
\* INVALID_ARGS, naming them, unless there is none
assertSessionSelectorMatches(session, flags) ==
    LET device == session.device
        normalizedPlatform == normalizePlatformSelector(flags.platform)
    IN  (IF Truthy(normalizedPlatform) /\ normalizedPlatform # device.platform
         THEN {"platform"} ELSE {})
        \cup (IF Truthy(flags.target) /\ flags.target # Coalesce(device.target, Mobile)
              THEN {"target"} ELSE {})
        \cup (IF Truthy(flags.udid) /\ (device.platform # Ios \/ flags.udid # device.id)
              THEN {"udid"} ELSE {})
        \cup (IF Truthy(flags.serial)
                 /\ (device.platform # Android \/ flags.serial # device.id)
              THEN {"serial"} ELSE {})
        \cup (IF Truthy(flags.device)
                 /\ ToLowerCase(Trim(flags.device)) # ToLowerCase(Trim(device.name))
              THEN {"device"} ELSE {})
        \cup (IF Truthy(flags.iosSimulatorDeviceSet)
                 /\ (\/ device.platform # Ios
                     \/ device.kind # "simulator"
                     \/ Trim(flags.iosSimulatorDeviceSet) #
                           (IF device.simulatorSetPath = Undef THEN Undef
                            ELSE Trim(device.simulatorSetPath)))
              THEN {"iosSimulatorDeviceSet"} ELSE {})
        \cup (IF Truthy(flags.androidDeviceAllowlist)
                 /\ (\/ device.platform # Android
                     \/ device.id \notin parseSerialAllowlist(flags.androidDeviceAllowlist))
              THEN {"androidDeviceAllowlist"} ELSE {})

resolveEffectiveSessionName(req) == IF Truthy(req.session) THEN req.session ELSE Default

resolveTargetDevice(flags) ==
    IF normalizePlatformSelector(flags.platform) = Android THEN AndroidDevice
    ELSE IosDevice

isCommandSupportedOnDevice(command, device) ==
    IF command = "keyboard" THEN device.platform = Android ELSE TRUE

\* a lookup that requires the session and leaves the capability matrix aside
requireSupportedSessionAnyCommand(command, sessionName) ==
    IF sessionName \notin DOMAIN sessions THEN "SESSION_NOT_FOUND" ELSE "OK"

\* handleRequest once no handler group has claimed the command: the error it
\* answers with instead of calling the dispatcher, "OK" when it goes on
requireSupportedSession(command, sessionName) ==
    IF sessionName \notin DOMAIN sessions THEN "SESSION_NOT_FOUND"
    ELSE IF ~isCommandSupportedOnDevice(command, sessions[sessionName].device)
         THEN "UNSUPPORTED_OPERATION"
         ELSE "OK"

\* a journal that takes no entry
recordActionNever(S, sessionName) == S

\* SessionStore.recordAction, the journal kept as its length
recordAction(S, sessionName) ==
    [S EXCEPT ![sessionName].actions = S[sessionName].actions + 1]

Pending == [ok |-> TRUE, code |-> "PENDING", reason |-> ""]

\* SessionState: the device, the journal and the recording and app-log
\* handles of a session, here whether each is active
SessionState(device) ==
    [device |-> device, actions |-> 1, recording |-> FALSE, appLog |-> FALSE]

\* the process behind a handle of a session
Handle(sessionName, kind) == [session |-> sessionName, kind |-> kind]

\* a stop call: the handle stopped, and whether the session was in the store
StopCall(S, sessionName, kind) ==
    [kind |-> kind, stored |-> sessionName \in DOMAIN S]

\* the session of another name that holds the device, if any
sessionsOnDeviceNone(device, sessionName) == {}

sessionsOnDevice(device, sessionName) ==
    {name \in DOMAIN sessions \ {sessionName} : sessions[name].device.id = device.id}

\* a close that deletes the session entry and leaves its log stream running
closeSessionKeepingAppLog(sessionName) ==
    LET session == sessions[sessionName] IN
    [sessions |-> MapDelete(sessions, sessionName),
     handles |-> handles \ {Handle(sessionName, "recording")},
     stopCalls |-> IF session.recording
                   THEN <<StopCall(sessions, sessionName, "recording")>> ELSE <<>>]

\* close of a stored session: the recording is stopped, then the app log
\* stream, then the entry is deleted
closeSession(sessionName) ==
    LET session == sessions[sessionName]
        recordingStopped ==
            IF session.recording
            THEN [handles |-> handles \ {Handle(sessionName, "recording")},
                  stopCalls |-> <<StopCall(sessions, sessionName, "recording")>>]
            ELSE [handles |-> handles, stopCalls |-> <<>>]
        appLogStopped ==
            IF session.appLog
            THEN [handles |-> recordingStopped.handles \ {Handle(sessionName, "appLog")},
                  stopCalls |-> Append(recordingStopped.stopCalls,
                                       StopCall(sessions, sessionName, "appLog"))]
            ELSE recordingStopped
    IN  [sessions |-> MapDelete(sessions, sessionName),
         handles |-> appLogStopped.handles,
         stopCalls |-> appLogStopped.stopCalls]

\* a batch step: a command, its positionals, and the flags it sets itself
\* (here the platform selector; Undef when the step sets none)
BatchStepOf(command, platform) ==
    [command |-> command, positionals |-> <<>>, platform |-> platform]

\* a batch that admits nested steps
isNestedStepNever(step) == FALSE

\* a step that would re-enter batch handling: a nested batch or a replay
isNestedStep(step) == step.command \in {"batch", "replay"}

\* a batch of any length
exceedsMaxStepsNever(steps, maxSteps) == FALSE

\* more steps than the request's maxSteps allows
exceedsMaxSteps(steps, maxSteps) == maxSteps # <<>> /\ Len(steps) > maxSteps[1]

\* the check of a batch's steps before any of them is invoked
validateBatchSteps(steps, maxSteps) ==
    IF \E k \in 1..Len(steps) : isNestedStep(steps[k])
    THEN "INVALID_ARGS"
    ELSE IF exceedsMaxSteps(steps, maxSteps)
    THEN "INVALID_ARGS"
    ELSE "OK"

\* a batch whose steps passed the check: the steps are invoked next
Running == [ok |-> TRUE, code |-> "BATCH", reason |-> ""]

\* [claimed, response, sessions, opening, handles, stopCalls]; an open that
\* creates a session suspends (readiness check, backend call) after the
\* in-use check, and the session is stored when it resumes: response Pending
handleSessionCommands(req, sessionName) ==
    LET device == resolveTargetDevice(req.flags)
        unclaimed == [claimed |-> FALSE, response |-> Success,
                      sessions |-> sessions, opening |-> opening,
                      handles |-> handles, stopCalls |-> <<>>]
        answer(response, S, O) ==
            [claimed |-> TRUE, response |-> response, sessions |-> S, opening |-> O,
             handles |-> handles, stopCalls |-> <<>>]
    IN  CASE req.command \in {"session_list", "devices"} ->
               answer(Success, sessions, opening)
          [] req.command = "open" ->
               IF sessionName \in DOMAIN sessions
               THEN answer(Success, recordAction(sessions, sessionName), opening)
               ELSE IF sessionsOnDevice(device, sessionName) # {}
                    THEN answer(Failure("DEVICE_IN_USE", ""), sessions, opening)
                    ELSE answer(Pending, sessions,
                                opening \cup {[session |-> sessionName, device |-> device]})
          [] req.command = "batch" ->
               IF validateBatchSteps(req.flags.batchSteps, req.flags.batchMaxSteps) # "OK"
               THEN answer(Failure("INVALID_ARGS", ""), sessions, opening)
               ELSE answer(Running, sessions, opening)
          [] req.command = "close" ->
               IF sessionName \in DOMAIN sessions
               THEN [answer(Success, closeSession(sessionName).sessions, opening)
                        EXCEPT !.handles = closeSession(sessionName).handles,
                               !.stopCalls = closeSession(sessionName).stopCalls]
               ELSE answer(Failure("SESSION_NOT_FOUND", ""), sessions, opening)
          [] req.command = "logs" ->
               IF sessionName \notin DOMAIN sessions
               THEN answer(Failure("SESSION_NOT_FOUND", ""), sessions, opening)
               ELSE IF req.positionals = <<"start">> /\ ~sessions[sessionName].appLog
               THEN [answer(Success,
                            [sessions EXCEPT ![sessionName].appLog = TRUE], opening)
                        EXCEPT !.handles = handles \cup {Handle(sessionName, "appLog")}]
               ELSE IF req.positionals = <<"stop">> /\ sessions[sessionName].appLog
               THEN [answer(Success,
                            [sessions EXCEPT ![sessionName].appLog = FALSE], opening)
                        EXCEPT !.handles = handles \ {Handle(sessionName, "appLog")},
                               !.stopCalls =
                                   <<StopCall(sessions, sessionName, "appLog")>>]
               ELSE answer(Failure("INVALID_ARGS", ""), sessions, opening)
          [] OTHER -> unclaimed

\* [claimed, response, sessions, handles, stopCalls]: record start and
\* record stop on a session
handleRecordTraceCommands(req, sessionName) ==
    LET answer(response, S, H) ==
            [claimed |-> TRUE, response |-> response, sessions |-> S, handles |-> H,
             stopCalls |-> <<>>]
    IN  IF req.command # "record"
        THEN [claimed |-> FALSE, response |-> Success, sessions |-> sessions,
              handles |-> handles, stopCalls |-> <<>>]
        ELSE IF sessionName \notin DOMAIN sessions
        THEN answer(Failure("SESSION_NOT_FOUND", ""), sessions, handles)
        ELSE IF req.positionals = <<"start">> /\ ~sessions[sessionName].recording
        THEN answer(Success, [sessions EXCEPT ![sessionName].recording = TRUE],
                    handles \cup {Handle(sessionName, "recording")})
        ELSE IF req.positionals = <<"stop">> /\ sessions[sessionName].recording
        THEN [answer(Success, [sessions EXCEPT ![sessionName].recording = FALSE],
                     handles \ {Handle(sessionName, "recording")})
                EXCEPT !.stopCalls = <<StopCall(sessions, sessionName, "recording")>>]
        ELSE answer(Failure("INVALID_ARGS", ""), sessions, handles)

\* [claimed, response, sessions]
handleInteractionCommands(req, sessionName) ==
    IF req.command # "press"
    THEN [claimed |-> FALSE, response |-> Success, sessions |-> sessions]
    ELSE IF sessionName \in DOMAIN sessions
         THEN [claimed |-> TRUE, response |-> Success,
               sessions |-> recordAction(sessions, sessionName)]
         ELSE [claimed |-> TRUE, response |-> Failure("SESSION_NOT_FOUND", ""),
               sessions |-> sessions]

\* a request that skips the token comparison
tokenMatchesAny(req) == TRUE

tokenMatches(req) == req.token = Token

\* what a call of handleRequest leaves: its response, the registry, the session
\* store, the suspended opens, and the stages of the pipeline it ran
Handled(response, registry, S, O, stages) ==
    [response |-> response, leases |-> registry.leases,
     runBindings |-> registry.runBindings, minted |-> registry.minted,
     released |-> registry.res.released, sessions |-> S, opening |-> O,
     handles |-> handles, stopCalls |-> <<>>, stages |-> stages, mismatches |-> {}]

\* deviceOk: whether the backend call of dispatchCommand succeeds. The
\* snapshot and find groups claim none of the commands modelled.
handleRequest(req, deviceOk) ==
    LET normalizedReq == normalizeAliasedCommands(req)
        scoped == scopeRequestSession(normalizedReq)
        scopedReq == scoped.req
        command == scopedReq.command
        leaseScope == resolveLeaseScope(scopedReq)
        admitting == /\ command \notin leaseAdmissionExemptCommands
                     /\ scopedReq.meta.sessionIsolation = TenantMode
        admission ==
            IF admitting
            THEN assertLeaseAdmission(Request(leaseScope.tenantId, leaseScope.runId,
                                              leaseScope.leaseId, leaseScope.leaseBackend,
                                              <<>>))
            ELSE Untouched
        sessionName == resolveEffectiveSessionName(scopedReq)
        selecting == /\ sessionName \in DOMAIN sessions
                     /\ command \notin selectorValidationExemptCommands
        leaseResponse == handleLeaseCommands(scopedReq)
        sessionResponse == handleSessionCommands(scopedReq, sessionName)
        recordTraceResponse == handleRecordTraceCommands(scopedReq, sessionName)
        interactionResponse == handleInteractionCommands(scopedReq, sessionName)
        early == {"scope"} \cup (IF admitting THEN {"admission"} ELSE {})
        checked == early \cup (IF selecting THEN {"selector"} ELSE {})
        run == checked \cup {"handlers"}
    IN  IF ~tokenMatches(normalizedReq)
        THEN Handled(normalizeError(Thrown("UNAUTHORIZED", "")), Untouched, sessions,
                     opening, {})
        ELSE IF ~scoped.ok
        THEN Handled(Failure("INVALID_ARGS", ""), Untouched, sessions, opening, {"scope"})
        ELSE IF ~admission.res.ok
        THEN Handled(normalizeError(admission.res), admission, sessions, opening, early)
        ELSE IF selecting
                /\ assertSessionSelectorMatches(sessions[sessionName], scopedReq.flags) # {}
        THEN [Handled(Failure("INVALID_ARGS", ""), admission, sessions, opening, checked)
                EXCEPT !.mismatches =
                    assertSessionSelectorMatches(sessions[sessionName], scopedReq.flags)]
        ELSE IF leaseResponse.claimed
        THEN Handled(IF leaseResponse.registry.res.ok THEN Success
                     ELSE normalizeError(leaseResponse.registry.res),
                     leaseResponse.registry, sessions, opening, run)
        ELSE IF sessionResponse.claimed
        THEN [Handled(sessionResponse.response, admission, sessionResponse.sessions,
                      sessionResponse.opening, run)
                EXCEPT !.handles = sessionResponse.handles,
                       !.stopCalls = sessionResponse.stopCalls]
        ELSE IF recordTraceResponse.claimed
        THEN [Handled(recordTraceResponse.response, admission,
                      recordTraceResponse.sessions, opening, run)
                EXCEPT !.handles = recordTraceResponse.handles,
                       !.stopCalls = recordTraceResponse.stopCalls]
        ELSE IF interactionResponse.claimed
        THEN Handled(interactionResponse.response, admission,
                     interactionResponse.sessions, opening, run)
        ELSE IF requireSupportedSession(command, sessionName) # "OK"
        THEN Handled(Failure(requireSupportedSession(command, sessionName), ""),
                     admission, sessions, opening, run)
        ELSE IF ~deviceOk
        THEN Handled(Failure("COMMAND_FAILED", ""), admission, sessions, opening,
                     run \cup {"dispatch"})
        ELSE Handled(Success, admission, recordAction(sessions, sessionName), opening,
                     run \cup {"dispatch", "journal"})

----------------------------------------------------------------------------
(* The daemon serving requests *)

NoMeta == Meta(Undef, Undef, Undef, Undef)
NoFlags == Flags(Undef, Undef, Undef)
Scoped(tenantId, leaseId) == Meta(tenantId, Run1, leaseId, TenantMode)

\* requests: without and with tenant isolation, with a wrong token, and, one
\* field at a time, absent, padded, malformed and mismatching scopes
Requests ==
    {DaemonRequest(BadToken, c, Undef, Scoped(TenantA, LeaseIdOf(1)), NoFlags) :
        c \in {"open", "keyboard", "lease_release"}}
    \cup {DaemonRequest(Token, c, Undef, NoMeta, Flags(Undef, Undef, p)) :
            c \in {"session_list", "open", "close", "click", "keyboard"},
            p \in {Undef, Android}}
    \cup {DaemonRequest(Token, "lease_allocate", Undef,
                        Meta(t, Run1, Undef, Undef), NoFlags) :
            t \in {TenantA, BadTenant}}
    \cup {DaemonRequest(Token, c, Undef, Meta(Undef, Undef, id, Undef), NoFlags) :
            c \in {"lease_heartbeat", "lease_release"}, id \in MintableIds}
    \cup {DaemonRequest(Token, "lease_release", Undef, Scoped(TenantB, LeaseIdOf(1)),
                        NoFlags)}
    \cup {DaemonRequest(Token, c, Undef, Scoped(TenantA, id), NoFlags) :
            c \in {"open", "close", "keyboard"}, id \in MintableIds}
    \cup {DaemonRequest(Token, c, Undef, Scoped(TenantA, LeaseIdOf(1)), NoFlags) :
            c \in {"click", "home", "session_list", "devices"}}
    \cup {DaemonRequest(Token, "keyboard", Undef, Scoped(t, LeaseIdOf(1)), NoFlags) :
            t \in {Undef, TenantB, PaddedA, BadTenant}}
    \cup {DaemonRequest(Token, "keyboard", Undef, Scoped(TenantA, id), NoFlags) :
            id \in {Undef, ShortLeaseId, UnknownLeaseId}}
    \cup {DaemonRequest(Token, "keyboard", Undef,
                        Meta(TenantA, r, LeaseIdOf(1), TenantMode), NoFlags) :
            r \in {Undef, Run2}}
    \cup {DaemonRequest(Token, "keyboard", Undef,
                        Meta(Undef, Run1, LeaseIdOf(1), i),
                        Flags(TenantA, PaddedTenantMode, Undef)) :
            i \in {Undef, NoneMode}}
    \cup {DaemonRequest(Token, "session_list", Undef,
                        Meta(Undef, Undef, Undef, TenantMode), NoFlags)}
    \cup {DaemonRequest(Token, c, Named, Scoped(TenantA, LeaseIdOf(1)), NoFlags) :
            c \in {"open", "close"}}

\* open and close requests of clients on separate connections
OpenCloseRequests ==
    {DaemonRequest(Token, c, n, NoMeta, Flags(Undef, Undef, p)) :
        c \in {"open", "close"}, n \in {Undef, Named}, p \in {Undef, Android, Apple}}

\* the daemon's registry: AGENT_DEVICE_LEASE_TTL_MS and its bounds, in ticks
DaemonOptions ==
    [maxActiveSimulatorLeases |-> <<>>, defaultLeaseTtlMs |-> <<1>>,
     minLeaseTtlMs |-> <<1>>, maxLeaseTtlMs |-> <<2>>]

\* what is kept of a request: the lease id it presents (as the registry reads
\* it), its response and the stages that ran
Answered(req, out) ==
    [presented |-> LeaseIdFor[Coalesce(Coalesce(req.meta.leaseId, req.flags.leaseId), <<>>)],
     response |-> out.response, stages |-> out.stages]

\* the state a call of handleRequest with outcome out leaves
Apply(req, out) ==
    /\ out.minted <= MaxLeases
    /\ \A name \in DOMAIN out.sessions : out.sessions[name].actions <= MaxActions
    /\ Cardinality(out.opening) <= MaxOpening
    /\ leases' = out.leases
    /\ runBindings' = out.runBindings
    /\ minted' = out.minted
    /\ releasedIds' = releasedIds \cup
          (IF out.released THEN {Answered(req, out).presented} ELSE {})
    /\ sessions' = out.sessions
    /\ opening' = out.opening
    /\ handles' = out.handles
    /\ stopCalls' = out.stopCalls
    /\ last' = Answered(req, out)
    /\ UNCHANGED <<options, now, call, lockVars, socketVars, shutdownVars>>

HandleRequest(req, deviceOk) ==
    \E out \in {handleRequest(req, deviceOk)} :
    /\ req.command # "batch"
    /\ Apply(req, out)
    /\ UNCHANGED <<batch, http, bootstrap, peers>>

\* a suspended open resumes: the backend call returned, the open is journaled
\* and the session is stored
FinishOpen(o) ==
    /\ o \in opening
    /\ opening' = opening \ {o}
    /\ sessions' = MapSet(sessions, o.session, SessionState(o.device))
    /\ last' = [presented |-> Undef, response |-> Success, stages |-> {"resumed"}]
    /\ UNCHANGED <<registryVars, call, handles, stopCalls, lockVars,
                   socketVars, shutdownVars>>

OpenFinish(o) == FinishOpen(o) /\ UNCHANGED <<batch, http, bootstrap, peers>>

\* a suspended open resumes with the backend call failed: no session
FailOpen(o) ==
    /\ o \in opening
    /\ opening' = opening \ {o}
    /\ last' = [presented |-> Undef, response |-> Failure("COMMAND_FAILED", ""),
                stages |-> {"resumed"}]
    /\ UNCHANGED <<registryVars, call, sessions, handles, stopCalls, lockVars,
                   socketVars, shutdownVars>>

OpenFail(o) == FailOpen(o) /\ UNCHANGED <<batch, http, bootstrap, peers>>

Init ==
    /\ options = DaemonOptions
    /\ RegistryInit
    /\ call = NoCall
    /\ IdlePipeline
    /\ NoLaunch
    /\ NoConnection
    /\ NoShutdown

\* a request of a client that waits for each response before its next request
Serve(req, deviceOk) ==
    /\ opening = {}
    /\ HandleRequest(req, deviceOk)

Next ==
    \/ Tick
    \/ \E req \in Requests : Serve(req, TRUE)
    \/ \E req \in Requests : req.command = "keyboard" /\ Serve(req, FALSE)
    \/ \E o \in opening : OpenFinish(o)
    \/ \E o \in opening : OpenFail(o)

Spec == Init /\ [][Next]_vars

\* requests of one client that opens sessions, records, streams app logs,
\* sends device commands with and without selectors, and closes; and of a
\* tenant that allocates a lease and does the same in its own session
SessionRequests ==
    {DaemonRequest(Token, c, n, NoMeta, Flags(Undef, Undef, p)) :
        c \in {"open", "close"}, n \in {Undef, Named}, p \in {Undef, Android}}
    \cup {[DaemonRequest(Token, c, n, NoMeta, NoFlags) EXCEPT !.positionals = <<a>>] :
            c \in {"logs", "record"}, n \in {Undef, Named}, a \in {"start", "stop"}}
    \cup {DaemonRequest(Token, c, Undef, NoMeta, Flags(Undef, Undef, p)) :
            c \in {"keyboard", "home"}, p \in {Undef, Android}}
    \cup {DaemonRequest(Token, "click", Undef, NoMeta,
                        [NoFlags EXCEPT !.udid = <<"s", "2">>]),
          DaemonRequest(Token, "home", Undef, NoMeta,
                        [NoFlags EXCEPT !.device = <<" ", "s", "I", "M">>])}
    \cup {DaemonRequest(Token, "lease_allocate", Undef,
                        Meta(TenantA, Run1, Undef, Undef), NoFlags)}
    \cup {DaemonRequest(Token, c, Undef, Scoped(TenantA, LeaseIdOf(1)), NoFlags) :
            c \in {"open", "close", "home"}}

SessionNext ==
    \/ \E req \in SessionRequests : Serve(req, TRUE)
    \/ \E req \in SessionRequests : req.command = "keyboard" /\ Serve(req, FALSE)
    \/ \E o \in opening : OpenFinish(o)
    \/ \E o \in opening : OpenFail(o)

SessionSpec == Init /\ [][SessionNext]_vars

----------------------------------------------------------------------------
(* The batch command: one request whose steps re-enter handleRequest *)

\* the longest batch the bound lets through: step lists and maxSteps go one
\* beyond it
MaxBatchSteps == 2

\* the steps clients put in a batch: session commands, one of them with a
\* selector of its own, and the two commands a batch refuses to nest
BatchSteps ==
    {BatchStepOf(c, Undef) : c \in {"open", "press", "close", "batch", "replay"}}
    \cup {BatchStepOf("open", Android)}

StepLists == UNION {[1..n -> BatchSteps] : n \in 1..(MaxBatchSteps + 1)}

BatchRequests ==
    {DaemonRequest(Token, "batch", Undef, NoMeta,
                   [NoFlags EXCEPT !.batchSteps = steps, !.batchMaxSteps = <<max>>]) :
        steps \in StepLists, max \in 1..(MaxBatchSteps + 1)}

\* the request a batch invokes for one step: the parent's token, session and
\* scope, the parent's flags unless the step sets its own, the step's command
StepRequest(parent, step) ==
    [parent EXCEPT !.command = step.command,
                   !.positionals = step.positionals,
                   !.flags = [parent.flags EXCEPT
                                 !.batchSteps = <<>>,
                                 !.batchMaxSteps = <<>>,
                                 !.platform = Coalesce(step.platform, parent.flags.platform)]]

\* a batch that takes every step's response for a success
stepFailedNever(response) == FALSE

stepFailed(response) == ~response.ok

\* the batch's failure: the failing step's error, with step, executed and
\* partialResults in its details
BatchFailure(code, step, results) ==
    [ok |-> FALSE, code |-> code, step |-> step, executed |-> Len(results),
     total |-> 0, results |-> results]

\* the batch's result: {total, executed, results}
BatchResult(steps, results) ==
    [ok |-> TRUE, code |-> "OK", step |-> 0, executed |-> Len(results),
     total |-> Len(steps), results |-> results]

\* the batch b after the step it invoked last answered with response
collect(b, response) ==
    LET answered == [b EXCEPT !.answers = Append(b.answers, response)]
        results == Append(b.results, response)
    IN  IF stepFailed(response)
        THEN [answered EXCEPT
                 !.phase = "done",
                 !.response = BatchFailure(response.code, Len(b.invoked), b.results)]
        ELSE IF Len(results) = Len(b.steps)
        THEN [answered EXCEPT !.phase = "done", !.results = results,
                              !.response = BatchResult(b.steps, results)]
        ELSE [answered EXCEPT !.phase = "running", !.results = results]

\* a batch request arrives: it passes the pipeline as any request does, its
\* steps are checked, and it either fails or starts invoking them
BatchStart(req) ==
    /\ req.command = "batch"
    /\ batch.phase = "idle"
    /\ opening = {}
    /\ \E out \in {handleRequest(req, TRUE)} :
          /\ Apply(req, out)
          /\ batch' = [NoBatch EXCEPT
                          !.phase = IF out.response = Running THEN "running" ELSE "done",
                          !.steps = req.flags.batchSteps,
                          !.parent = req,
                          !.response = IF out.response = Running THEN <<>>
                                       ELSE BatchFailure(out.response.code, 0, <<>>)]
          /\ UNCHANGED <<http, bootstrap, peers>>

\* the batch invokes its next step and, unless the step suspends, takes its
\* response
InvokeStep ==
    /\ batch.phase = "running"
    /\ opening = {}
    /\ LET step == batch.steps[Len(batch.invoked) + 1]
           stepReq == StepRequest(batch.parent, step)
           invoked == [batch EXCEPT !.invoked = Append(batch.invoked, step)]
       IN  \E out \in {handleRequest(stepReq, TRUE)} :
           /\ Apply(stepReq, out)
           /\ batch' = IF out.response = Pending
                       THEN [invoked EXCEPT !.phase = "awaiting"]
                       ELSE collect(invoked, out.response)
           /\ UNCHANGED <<http, bootstrap, peers>>

\* the open a step suspended in resumes, and the batch takes its response
StepOpenFinish(o) ==
    /\ batch.phase = "awaiting"
    /\ FinishOpen(o)
    /\ batch' = collect(batch, Success)
    /\ UNCHANGED <<http, bootstrap, peers>>

StepOpenFail(o) ==
    /\ batch.phase = "awaiting"
    /\ FailOpen(o)
    /\ batch' = collect(batch, Failure("COMMAND_FAILED", ""))
    /\ UNCHANGED <<http, bootstrap, peers>>

\* one batch of one client, and another client that opens and closes the
\* session before, between and after the steps
BatchNext ==
    \/ batch.phase = "idle" /\ \E req \in BatchRequests : BatchStart(req)
    \/ InvokeStep
    \/ \E o \in opening : StepOpenFinish(o)
    \/ \E o \in opening : StepOpenFail(o)
    \/ \E c \in {"open", "close"} :
          Serve(DaemonRequest(Token, c, Undef, NoMeta, NoFlags), TRUE)
    \/ \E o \in opening : batch.phase # "awaiting" /\ OpenFinish(o)
    \/ \E o \in opening : batch.phase # "awaiting" /\ OpenFail(o)

BatchSpec == Init /\ [][BatchNext]_vars

\* the steps of the batch that answered with a failure, by position
FailedSteps == {k \in 1..Len(batch.answers) : ~batch.answers[k].ok}

\* C21: a batch invokes its steps one at a time in list order; at the first
\* step k whose response is a failure it invokes no later step and fails with
\* step = k, executed = k - 1 and partialResults the k - 1 earlier results; if
\* no step fails it returns total = executed = the number of steps, with one
\* result for each step
BatchStopsAtFirstFailure ==
    /\ Len(batch.invoked) <= Len(batch.steps)
    /\ \A k \in 1..Len(batch.invoked) : batch.invoked[k] = batch.steps[k]
    /\ Len(batch.invoked) - Len(batch.answers) \in {0, 1}
    /\ \A k \in FailedSteps :
          /\ batch.phase = "done"
          /\ k = Len(batch.invoked)
          /\ \A j \in 1..(k - 1) : batch.answers[j].ok
          /\ ~batch.response.ok
          /\ batch.response.code = batch.answers[k].code
          /\ batch.response.step = k
          /\ batch.response.executed = k - 1
          /\ batch.response.results = SubSeq(batch.answers, 1, k - 1)
    /\ (batch.phase = "done" /\ batch.invoked # <<>> /\ FailedSteps = {}) =>
          /\ batch.response.ok
          /\ batch.invoked = batch.steps
          /\ batch.response.total = Len(batch.steps)
          /\ batch.response.executed = Len(batch.steps)
          /\ batch.response.results = batch.answers
          /\ Len(batch.response.results) = Len(batch.steps)

\* a batch of three steps failed at its second step
BatchFailedAtSecondStep ==
    /\ batch.phase = "done"
    /\ Len(batch.steps) = 3
    /\ FailedSteps = {2}
    /\ batch.response.step = 2
    /\ Len(batch.invoked) = 2

\* the batch has a step whose command is batch or replay
HasNestedStep ==
    \E k \in 1..Len(batch.steps) : batch.steps[k].command \in {"batch", "replay"}

\* C22: a batch with a step whose command is batch or replay fails with
\* INVALID_ARGS, and no batch or replay step is ever passed to handleRequest
NestedBatchRefused ==
    /\ (batch.phase # "idle" /\ HasNestedStep) =>
          /\ batch.phase = "done"
          /\ ~batch.response.ok
          /\ batch.response.code = "INVALID_ARGS"
          /\ batch.invoked = <<>>
    /\ \A k \in 1..Len(batch.invoked) :
          batch.invoked[k].command \notin {"batch", "replay"}

\* a batch whose second step is a replay was refused, its first step an open
NestedReplayRefused ==
    /\ batch.phase = "done"
    /\ Len(batch.steps) = 2
    /\ batch.steps[1].command = "open"
    /\ batch.steps[2].command = "replay"
    /\ batch.response.code = "INVALID_ARGS"

\* C23: a batch with more steps than its maxSteps fails with INVALID_ARGS and
\* invokes none of its steps; no batch invokes more than maxSteps steps
BatchBoundedByMaxSteps ==
    batch.phase # "idle" =>
        /\ Len(batch.steps) > batch.parent.flags.batchMaxSteps[1] =>
              /\ batch.phase = "done"
              /\ ~batch.response.ok
              /\ batch.response.code = "INVALID_ARGS"
              /\ batch.invoked = <<>>
        /\ Len(batch.invoked) <= batch.parent.flags.batchMaxSteps[1]

\* a batch of two session commands was refused under maxSteps 1
TooManyStepsRefused ==
    /\ batch.phase = "done"
    /\ ~HasNestedStep
    /\ Len(batch.steps) = 2
    /\ batch.parent.flags.batchMaxSteps = <<1>>
    /\ batch.response.code = "INVALID_ARGS"
    /\ batch.invoked = <<>>

----------------------------------------------------------------------------
(* The HTTP server: POST /rpc *)

MAX_HTTP_RPC_BODY_BYTES == 1048576

\* the chunks a body may arrive in
MaxChunks == 3

\* a chunk of the body: its length as a string (what body.length counts after
\* setEncoding('utf8')) and the bytes it took on the wire; half a MiB of ASCII,
\* and as many characters of two bytes each
Chunks ==
    {[chars |-> 512 * 1024, bytes |-> 512 * 1024],
     [chars |-> 512 * 1024, bytes |-> 1024 * 1024]}

COMMAND_RPC_METHODS == {"agent_device.command", "agent-device.command"}
LEASE_RPC_METHOD_TO_COMMAND ==
    [method \in {"agent_device.lease.allocate", "agent-device.lease.allocate"} |->
        "lease_allocate"]
SUPPORTED_RPC_METHODS == COMMAND_RPC_METHODS \cup DOMAIN LEASE_RPC_METHOD_TO_COMMAND

\* a JSON-RPC envelope as the body holds it: whether the body parses, and the
\* members of the parsed object; params <<>> is a missing params
Envelope(parses, jsonrpc, method, params) ==
    [parses |-> parses, jsonrpc |-> jsonrpc, method |-> method, params |-> params]

\* toDaemonRequest and toLeaseDaemonRequest: the params carry the token
methodToDaemonRequest(method, params) ==
    IF method \in COMMAND_RPC_METHODS
    THEN params
    ELSE DaemonRequest(params.token, LEASE_RPC_METHOD_TO_COMMAND[method], Undef,
                       Meta(params.meta.tenantId, params.meta.runId,
                            params.meta.leaseId, Undef), NoFlags)

\* what an auth hook returns: kind "none" is no hook configured, "true" is
\* true or undefined, "false" is false, "object" is {ok, code, tenantId}
HookResult(kind, ok, code, tenantId) ==
    [kind |-> kind, ok |-> ok, code |-> code, tenantId |-> tenantId]

\* a hook whose rejections are let through
hookRejectsNever(result) == FALSE

\* result === false, or result.ok === false
hookRejects(result) ==
    \/ result.kind = "false"
    \/ result.kind = "object" /\ ~result.ok

\* typeof result.tenantId === 'string' && result.tenantId.length > 0
hasTenantId(result) ==
    result.kind = "object" /\ result.tenantId # Undef /\ Len(result.tenantId) > 0

\* HttpAuthDecision: [ok, statusCode, rpcCode, code, tenantId]
runHttpAuthHook(result) ==
    LET allow(tenantId) ==
            [ok |-> TRUE, statusCode |-> 200, rpcCode |-> 0, code |-> "OK",
             tenantId |-> tenantId]
        reject(statusCode, rpcCode, code) ==
            [ok |-> FALSE, statusCode |-> statusCode, rpcCode |-> rpcCode,
             code |-> code, tenantId |-> Undef]
    IN  IF result.kind \in {"none", "true"} THEN allow(Undef)
        ELSE IF hookRejects(result)
        THEN reject(401, -32001,
                    IF result.kind = "object" /\ result.code # ""
                    THEN result.code ELSE "UNAUTHORIZED")
        ELSE IF hasTenantId(result)
        THEN IF normalizeTenantId(result.tenantId) = Undef
             THEN reject(500, -32000, "INVALID_ARGS")
             ELSE allow(normalizeTenantId(result.tenantId))
        ELSE allow(Undef)

\* a mutation that leaves the tenant the client named
withHookTenantUnlessNamed(daemonRequest, tenantId) ==
    IF tenantId = Undef THEN daemonRequest
    ELSE [daemonRequest EXCEPT
             !.meta.tenantId = Coalesce(daemonRequest.meta.tenantId, tenantId),
             !.meta.sessionIsolation =
                 Coalesce(daemonRequest.meta.sessionIsolation,
                          Coalesce(daemonRequest.flags.sessionIsolation, TenantMode))]

\* the daemon request after an allowing hook: the hook's tenant and, unless
\* the request names an isolation mode, tenant isolation
withHookTenant(daemonRequest, tenantId) ==
    IF tenantId = Undef THEN daemonRequest
    ELSE [daemonRequest EXCEPT
             !.meta.tenantId = tenantId,
             !.meta.sessionIsolation =
                 Coalesce(daemonRequest.meta.sessionIsolation,
                          Coalesce(daemonRequest.flags.sessionIsolation, TenantMode))]

\* sendJson for a response of handleRequest: [status, rpcCode, code]
sendDaemonResponse(response) ==
    IF response.ok
    THEN [status |-> 200, rpcCode |-> 0, code |-> "OK"]
    ELSE [status |-> statusCodeForNormalizedError(response.code), rpcCode |-> -32000,
          code |-> response.code]

\* the 'end' listener up to the call of handleRequest: [enters, daemonRequest,
\* status, rpcCode, code]; enters = FALSE is a response sent without the call
beforeHandleRequest(rpc, hook) ==
    LET answer(status, rpcCode, code) ==
            [enters |-> FALSE, daemonRequest |-> <<>>, status |-> status,
             rpcCode |-> rpcCode, code |-> code]
        daemonRequest == methodToDaemonRequest(rpc.method, rpc.params)
        authResult == runHttpAuthHook(hook)
    IN  IF ~rpc.parses THEN answer(400, -32700, "")
        ELSE IF rpc.jsonrpc # "2.0" THEN answer(400, -32600, "")
        ELSE IF rpc.method \notin SUPPORTED_RPC_METHODS THEN answer(404, -32601, "")
        ELSE IF rpc.params = <<>> THEN answer(400, -32602, "")
        ELSE IF rpc.method \in COMMAND_RPC_METHODS /\ daemonRequest.command = ""
        THEN answer(400, -32602, "")
        ELSE IF ~authResult.ok
        THEN answer(authResult.statusCode, authResult.rpcCode, authResult.code)
        ELSE [enters |-> TRUE,
              daemonRequest |-> withHookTenant(daemonRequest, authResult.tenantId),
              status |-> 0, rpcCode |-> 0, code |-> ""]

\* a 'data' event: the chunk is appended; a body longer than the limit
\* destroys the request, and its 'error' listener answers
HttpData(chunk) ==
    /\ http.phase \in {"idle", "receiving", "done"}
    /\ LET from == IF http.phase = "receiving" THEN http ELSE NoHttp
           body == [from EXCEPT !.phase = "receiving",
                                !.chunks = from.chunks + 1,
                                !.chars = from.chars + chunk.chars,
                                !.bytes = from.bytes + chunk.bytes]
       IN  /\ body.chunks <= MaxChunks
           /\ http' = IF body.chars > MAX_HTTP_RPC_BODY_BYTES
                      THEN [body EXCEPT !.phase = "done", !.status = 400,
                                        !.rpcCode = -32700]
                      ELSE body
    /\ UNCHANGED <<registryVars, call, sessions, opening, last, handles, stopCalls,
                   batch, bootstrap, peers, lockVars, socketVars, shutdownVars>>

\* the 'end' event: the envelope is parsed and checked, the auth hook is run,
\* and the request is handed to handleRequest, whose response is sent unless
\* the request suspends
HttpEnd(rpc, hook, deviceOk) ==
    /\ http.phase = "receiving"
    /\ opening = {}
    /\ \E before \in {beforeHandleRequest(rpc, hook)} :
          LET received == [http EXCEPT !.rpc = rpc, !.hook = hook] IN
          IF ~before.enters
          THEN /\ http' = [received EXCEPT !.phase = "done",
                                           !.status = before.status,
                                           !.rpcCode = before.rpcCode,
                                           !.code = before.code]
               /\ UNCHANGED <<registryVars, call, sessions, opening, last, handles,
                              stopCalls, lockVars, socketVars, shutdownVars>>
          ELSE \E out \in {handleRequest(before.daemonRequest, deviceOk)} :
               /\ Apply(before.daemonRequest, out)
               /\ http' = IF out.response = Pending
                          THEN [received EXCEPT !.phase = "awaiting",
                                                !.entered = before.daemonRequest]
                          ELSE [received EXCEPT
                                   !.phase = "done",
                                   !.entered = before.daemonRequest,
                                   !.status = sendDaemonResponse(out.response).status,
                                   !.rpcCode = sendDaemonResponse(out.response).rpcCode,
                                   !.code = sendDaemonResponse(out.response).code]
    /\ UNCHANGED <<batch, bootstrap, peers>>

\* the open the request suspended in resumes, and its response is sent
HttpOpenFinish(o) ==
    /\ http.phase = "awaiting"
    /\ FinishOpen(o)
    /\ http' = [http EXCEPT !.phase = "done",
                            !.status = sendDaemonResponse(Success).status,
                            !.rpcCode = sendDaemonResponse(Success).rpcCode,
                            !.code = sendDaemonResponse(Success).code]
    /\ UNCHANGED <<batch, bootstrap, peers>>

HttpOpenFail(o) ==
    /\ http.phase = "awaiting"
    /\ FailOpen(o)
    /\ LET sent == sendDaemonResponse(Failure("COMMAND_FAILED", "")) IN
       http' = [http EXCEPT !.phase = "done", !.status = sent.status,
                            !.rpcCode = sent.rpcCode, !.code = sent.code]
    /\ UNCHANGED <<batch, bootstrap, peers>>

\* the params of command requests: with and without a session to act on, with
\* a wrong token, a malformed tenant, and a tenant, run and lease of the
\* client's own naming, with and without an isolation mode
HttpParams ==
    {DaemonRequest(Token, c, Undef, NoMeta, NoFlags) :
        c \in {"", "session_list", "open", "close", "keyboard"}}
    \cup {DaemonRequest(BadToken, "keyboard", Undef, NoMeta, NoFlags),
          DaemonRequest(Token, "keyboard", Undef,
                        Meta(BadTenant, Undef, Undef, Undef), NoFlags)}
    \cup {DaemonRequest(Token, c, Undef, Meta(t, Run1, LeaseIdOf(1), i), NoFlags) :
            c \in {"open", "keyboard"}, t \in {Undef, TenantB}, i \in {Undef, NoneMode}}

HttpEnvelopes ==
    {Envelope(FALSE, "", "", <<>>),
     Envelope(TRUE, "1.0", "agent_device.command", <<>>),
     Envelope(TRUE, "2.0", "agent_device.bogus", <<>>),
     Envelope(TRUE, "2.0", "agent_device.command", <<>>)}
    \cup {Envelope(TRUE, "2.0", m, params) :
            m \in COMMAND_RPC_METHODS, params \in HttpParams}
    \cup {Envelope(TRUE, "2.0", m,
                   DaemonRequest(Token, "", Undef, Meta(t, Run1, Undef, Undef), NoFlags)) :
            m \in DOMAIN LEASE_RPC_METHOD_TO_COMMAND, t \in {Undef, TenantA}}

\* what the configured hook answers: nothing configured, true, false, a
\* rejection with and without a code of its own, and an allowance without a
\* tenant id, with an empty one, a well-formed, a padded and a malformed one
HookResults ==
    {HookResult(k, TRUE, "", Undef) : k \in {"none", "true", "false"}}
    \cup {HookResult("object", FALSE, c, t) :
            c \in {"", "FORBIDDEN"}, t \in {Undef, TenantA}}
    \cup {HookResult("object", TRUE, "", t) :
            t \in {Undef, <<>>, TenantA, PaddedA, BadTenant}}

HttpNext ==
    \/ \E chunk \in Chunks : HttpData(chunk)
    \/ \E rpc \in HttpEnvelopes, hook \in HookResults : HttpEnd(rpc, hook, TRUE)
    \/ \E o \in opening : HttpOpenFinish(o)
    \/ \E o \in opening : HttpOpenFail(o)

HttpSpec == Init /\ [][HttpNext]_vars

\* the server has answered the request, or waits for handleRequest
HttpServed == http.phase \in {"awaiting", "done"}

\* C24: a POST /rpc whose body exceeds 1 MiB receives HTTP 400 with JSON-RPC
\* error -32700, and handleRequest is never invoked for it
OversizedBodyRefused ==
    (HttpServed /\ http.bytes > 1024 * 1024) =>
        /\ http.phase = "done"
        /\ http.status = 400
        /\ http.rpcCode = -32700
        /\ http.entered = <<>>

\* the envelope is well formed: the server gets as far as the auth hook
ReachesHook(rpc) ==
    /\ rpc.parses
    /\ rpc.jsonrpc = "2.0"
    /\ rpc.method \in {"agent_device.command", "agent-device.command",
                        "agent_device.lease.allocate", "agent-device.lease.allocate"}
    /\ rpc.params # <<>>
    /\ rpc.method \in {"agent_device.command", "agent-device.command"} =>
          rpc.params.command # ""

\* the request was answered after its body ended, and its hook was run
HookWasRun == HttpServed /\ http.rpc # <<>> /\ ReachesHook(http.rpc) /\ http.hook.kind # "none"

HookRejected ==
    \/ http.hook.kind = "false"
    \/ http.hook.kind = "object" /\ ~http.hook.ok

\* C25: with an auth hook configured, a request for which the hook returns
\* false or an object with ok:false is answered with JSON-RPC error -32001 and
\* handleRequest is not invoked; -32001 is the code of no other response
AuthHookRejection ==
    /\ (HookWasRun /\ HookRejected) =>
          /\ http.phase = "done"
          /\ http.rpcCode = -32001
          /\ http.entered = <<>>
    /\ http.rpcCode = -32001 => (HookWasRun /\ HookRejected)

\* a hook's {ok:false} with a code of its own was answered with -32001
HookObjectRejected ==
    /\ HookWasRun
    /\ http.hook.kind = "object"
    /\ ~http.hook.ok
    /\ http.hook.code = "FORBIDDEN"
    /\ http.rpcCode = -32001
    /\ http.status = 401

\* the hook allowed the request and returned one of the tenant ids
HookReturnedTenant(tenantIds) ==
    /\ HookWasRun
    /\ http.hook.kind = "object"
    /\ http.hook.ok
    /\ http.hook.tenantId \in tenantIds

\* the isolation mode the client set on the request, Undef if none
ClientIsolation(req) == Coalesce(req.meta.sessionIsolation, req.flags.sessionIsolation)

\* the request that entered the pipeline carries the hook's tenant id and, if
\* the client set no isolation mode, tenant isolation; all else is the client's
CarriesHookTenant ==
    LET sent == methodToDaemonRequest(http.rpc.method, http.rpc.params)
    IN  /\ http.entered # <<>>
        /\ http.entered.meta.tenantId = TenantIdOf[http.hook.tenantId]
        /\ http.entered.meta.sessionIsolation =
              (IF ClientIsolation(sent) # Undef THEN ClientIsolation(sent) ELSE TenantMode)
        /\ http.entered.command = sent.command
        /\ http.entered.meta.leaseId = sent.meta.leaseId

HookTenantRefused ==
    /\ http.phase = "done"
    /\ http.status = 500
    /\ http.code = "INVALID_ARGS"
    /\ http.entered = <<>>

\* C26 as stated: a valid tenant id of the hook replaces the client's and sets
\* tenant isolation unless a mode was set; any invalid tenant id is answered
\* with HTTP 500 INVALID_ARGS and the pipeline is not entered
HookTenantInjected ==
    /\ HookReturnedTenant({TenantA, PaddedA}) => CarriesHookTenant
    /\ HookReturnedTenant({<<>>, BadTenant}) => HookTenantRefused

\* C26 amended: as above, for an invalid tenant id that is not the empty
\* string; an empty tenant id is no tenant id, and the request enters the
\* pipeline as the client sent it
HookTenantInjectedUnlessEmpty ==
    /\ HookReturnedTenant({TenantA, PaddedA}) => CarriesHookTenant
    /\ HookReturnedTenant({BadTenant}) => HookTenantRefused
    /\ HookReturnedTenant({<<>>}) =>
          http.entered = methodToDaemonRequest(http.rpc.method, http.rpc.params)

\* the hook's tenant replaced the tenant the client named
ClientTenantReplaced ==
    /\ HookReturnedTenant({TenantA})
    /\ http.rpc.params.meta.tenantId = TenantB
    /\ http.entered # <<>>
    /\ http.entered.meta.tenantId = TenantA
    /\ http.entered.meta.sessionIsolation = TenantMode

\* C28: a failure response of the pipeline is sent as JSON-RPC error -32000
\* with HTTP 400 for INVALID_ARGS, 401 for UNAUTHORIZED, 404 for
\* SESSION_NOT_FOUND and 500 for every other code; a successful one as HTTP
\* 200 with a result
PipelineResponseStatus ==
    (http.phase = "done" /\ http.entered # <<>>) =>
        IF last.response.ok
        THEN http.status = 200 /\ http.rpcCode = 0
        ELSE /\ http.rpcCode = -32000
             /\ http.code = last.response.code
             /\ http.status = (CASE last.response.code = "INVALID_ARGS" -> 400
                                 [] last.response.code = "UNAUTHORIZED" -> 401
                                 [] last.response.code = "SESSION_NOT_FOUND" -> 404
                                 [] OTHER -> 500)

\* a request whose session does not exist was answered with 404
SessionNotFoundIs404 ==
    /\ http.phase = "done"
    /\ http.entered # <<>>
    /\ last.response.code = "SESSION_NOT_FOUND"
    /\ http.status = 404
    /\ http.rpcCode = -32000

----------------------------------------------------------------------------
(* The client bootstrap: sendToDaemon and ensureDaemon *)

DAEMON_STARTUP_TIMEOUT_MS == 5000
\* the sleep between two polls of waitForDaemonInfo
DaemonInfoPollMs == 100

\* the version and code signature of the local codebase
LocalVersion == "v2"
LocalCodeSignature == "c2"

\* daemon.json as readDaemonInfo returns it, and daemon.lock
DaemonInfo(pid, version, codeSignature) ==
    [pid |-> pid, version |-> version, codeSignature |-> codeSignature]
DaemonLock(pid) == [pid |-> pid]

\* a reuse that does not compare the code signature
canReuseAnySignature(existing, existingReachable) ==
    /\ existing # <<>>
    /\ existing.version = LocalVersion
    /\ existingReachable

\* ensureDaemon: the condition under which the existing daemon is returned
canReuse(existing, existingReachable) ==
    /\ existing # <<>>
    /\ existing.version = LocalVersion
    /\ existing.codeSignature = LocalCodeSignature
    /\ existingReachable

\* the client's bootstrap b with some of its fields set
Becoming(b, pc) == [b EXCEPT !.pc = pc]

\* stopProcessForTakeover: SIGTERM, and SIGKILL if the process outlasts the
\* term timeout; a daemon that exits on SIGTERM removes its metadata and
\* releases its lock, a killed one leaves both. No signal for a pid that is
\* not a running daemon. exits: whether the process exits on SIGTERM
stopProcessForTakeover(b, pid, exits) ==
    IF pid \notin b.alive
    THEN [b EXCEPT !.stops = Append(b.stops, [pid |-> pid, signals |-> <<>>])]
    ELSE IF exits
    THEN [b EXCEPT !.stops = Append(b.stops, [pid |-> pid, signals |-> <<"SIGTERM">>]),
                   !.alive = b.alive \ {pid},
                   !.up = b.up \ {pid},
                   !.info = IF b.info # <<>> /\ b.info.pid = pid THEN <<>> ELSE b.info,
                   !.lock = IF b.lock # <<>> /\ b.lock.pid = pid THEN <<>> ELSE b.lock]
    ELSE [b EXCEPT !.stops = Append(b.stops, [pid |-> pid,
                                             signals |-> <<"SIGTERM", "SIGKILL">>]),
                   !.alive = b.alive \ {pid},
                   !.up = b.up \ {pid}]

\* cleanupStaleDaemonLockIfSafe: a lock without metadata whose holder is not a
\* running daemon is removed
cleanupStaleDaemonLockIfSafe(b) ==
    IF b.lock = <<>> \/ b.info # <<>> THEN b
    ELSE IF b.lock.pid \in b.alive THEN b
    ELSE [b EXCEPT !.lock = <<>>]

\* startDaemon: a detached daemon process; the state directory and the
\* processes as they are at the launch are kept
startDaemon(b) ==
    [b EXCEPT !.launches = b.launches + 1,
              !.starting = b.starting \cup {b.launches + 2},
              !.atLaunch = [info |-> b.info, lock |-> b.lock, alive |-> b.alive],
              !.windows = b.windows + 1,
              !.elapsed = 0,
              !.pc = "waiting"]

\* ensureDaemon reads the metadata, tries to connect, and returns the existing
\* daemon or goes on to replace it
EnsureDaemon ==
    /\ bootstrap.pc = "init"
    /\ LET existing == bootstrap.info
           existingReachable == existing # <<>> /\ existing.pid \in bootstrap.up
           read == [bootstrap EXCEPT !.existing = existing,
                                     !.existingReachable = existingReachable]
       IN  bootstrap' =
              IF canReuse(existing, existingReachable)
              THEN [read EXCEPT !.pc = "ready", !.reused = TRUE, !.result = existing]
              ELSE IF existing # <<>> THEN Becoming(read, "stopping")
              ELSE Becoming(read, "cleanup")

\* stopDaemonProcessForTakeover, then removeDaemonInfo
StopExisting(exits) ==
    /\ bootstrap.pc = "stopping"
    /\ bootstrap' =
          [stopProcessForTakeover(bootstrap, bootstrap.existing.pid, exits)
              EXCEPT !.info = <<>>, !.pc = "cleanup"]

\* cleanupStaleDaemonLockIfSafe, then startDaemon
CleanupAndStart ==
    /\ bootstrap.pc = "cleanup"
    /\ bootstrap' = startDaemon(cleanupStaleDaemonLockIfSafe(bootstrap))

\* waitForDaemonInfo, one turn of its loop: metadata that is there and
\* reachable is returned, otherwise the client sleeps
PollDaemonInfo ==
    /\ bootstrap.pc = "waiting"
    /\ bootstrap.elapsed < DAEMON_STARTUP_TIMEOUT_MS
    /\ bootstrap' =
          IF bootstrap.info # <<>> /\ bootstrap.info.pid \in bootstrap.up
          THEN [bootstrap EXCEPT !.pc = "ready", !.result = bootstrap.info]
          ELSE [bootstrap EXCEPT !.elapsed = bootstrap.elapsed + DaemonInfoPollMs]

\* waitForDaemonInfo returned null: after the first launch
\* recoverDaemonLockHolder removes a lock without metadata, stopping its
\* holder if that is a running daemon, and the daemon is started once more;
\* otherwise ensureDaemon throws COMMAND_FAILED
StartupTimedOut(exits) ==
    /\ bootstrap.pc = "waiting"
    /\ bootstrap.elapsed >= DAEMON_STARTUP_TIMEOUT_MS
    /\ bootstrap' =
          IF bootstrap.windows = 1 /\ bootstrap.lock # <<>> /\ bootstrap.info = <<>>
          THEN startDaemon(
                  [(IF bootstrap.lock.pid \in bootstrap.alive
                    THEN stopProcessForTakeover(bootstrap, bootstrap.lock.pid, exits)
                    ELSE bootstrap) EXCEPT !.lock = <<>>])
          ELSE Becoming(bootstrap, "failed")

\* sendToDaemon: the request is sent to the daemon ensureDaemon returned
SendRequest ==
    /\ bootstrap.pc = "ready"
    /\ bootstrap' = [bootstrap EXCEPT !.pc = "sent", !.sent = bootstrap.result]

\* a launched daemon takes the lock, unless a running daemon holds it, starts
\* its servers and writes its metadata
DaemonStarted(pid) ==
    /\ pid \in bootstrap.starting
    /\ IF bootstrap.lock = <<>> THEN TRUE ELSE bootstrap.lock.pid \notin bootstrap.alive
    /\ bootstrap' =
          [bootstrap EXCEPT !.starting = bootstrap.starting \ {pid},
                            !.alive = bootstrap.alive \cup {pid},
                            !.up = bootstrap.up \cup {pid},
                            !.lock = DaemonLock(pid),
                            !.info = DaemonInfo(pid, LocalVersion, LocalCodeSignature)]

\* a launched daemon exits without serving: the lock is held, or it fails
DaemonExited(pid) ==
    /\ pid \in bootstrap.starting
    /\ bootstrap' = [bootstrap EXCEPT !.starting = bootstrap.starting \ {pid}]

\* what a client may find: nothing; a daemon of this or of another version or
\* code signature, serving, hung or gone; a lock alone, held by a daemon that
\* has not written its metadata or left behind
Found ==
    {NoBootstrap}
    \cup {[NoBootstrap EXCEPT !.info = DaemonInfo(1, v, c), !.lock = DaemonLock(1),
                              !.alive = process[1], !.up = process[2]] :
            v \in {"v1", LocalVersion}, c \in {"c1", LocalCodeSignature},
            process \in {<<{}, {}>>, <<{1}, {}>>, <<{1}, {1}>>}}
    \cup {[NoBootstrap EXCEPT !.lock = DaemonLock(1), !.alive = alive] :
            alive \in {{}, {1}}}

BootstrapInit ==
    /\ options = DaemonOptions
    /\ RegistryInit
    /\ call = NoCall
    /\ sessions = EmptyMap
    /\ opening = {}
    /\ last = [presented |-> Undef,
               response |-> [ok |-> TRUE, code |-> "OK", reason |-> ""], stages |-> {}]
    /\ handles = {}
    /\ stopCalls = <<>>
    /\ batch = NoBatch
    /\ http = NoHttp
    /\ bootstrap \in Found
    /\ peers = NoPeers
    /\ NoLaunch
    /\ NoConnection
    /\ NoShutdown

BootstrapStep ==
    \/ EnsureDaemon
    \/ \E exits \in BOOLEAN : StopExisting(exits)
    \/ CleanupAndStart
    \/ PollDaemonInfo
    \/ \E exits \in BOOLEAN : StartupTimedOut(exits)
    \/ SendRequest
    \/ \E pid \in bootstrap.starting : DaemonStarted(pid)
    \/ \E pid \in bootstrap.starting : DaemonExited(pid)

BootstrapNext ==
    /\ BootstrapStep
    /\ UNCHANGED <<registryVars, call, sessions, opening, last, handles, stopCalls,
                   batch, http, peers, lockVars, socketVars, shutdownVars>>

BootstrapSpec == BootstrapInit /\ [][BootstrapNext]_vars

\* the signals of a stop: none for a pid that is not running, SIGTERM, and
\* SIGKILL only after SIGTERM
PolitelyThenForcibly(stop) ==
    stop.signals \in {<<>>, <<"SIGTERM">>, <<"SIGTERM", "SIGKILL">>}

----------------------------------------------------------------------------
(* The socket transport, two connections: what a close cancels *)

\* meta.requestId of the requests clients send; 0 is a request without one
RequestIds == {0, 1, 2}

\* the sequence without its k-th element
Without(seq, k) == SubSeq(seq, 1, k - 1) \o SubSeq(seq, k + 1, Len(seq))

\* a line of connection c is taken: the request is counted and its id kept;
\* a request whose id is marked canceled fails at once and its finally block
\* runs, any other waits in handleRequest
PeerRequest(c, id) ==
    /\ ~peers[c].closed
    /\ peers[c].inFlightRequests < MaxRequests
    /\ IF id # 0 /\ id \in canceledRequests
       THEN /\ peers' = [peers EXCEPT ![c].activeRequestIds = @ \ {id}]
            /\ canceledRequests' = canceledRequests \ {id}
       ELSE /\ peers' = [peers EXCEPT
                            ![c].awaiting = Append(@, id),
                            ![c].inFlightRequests = @ + 1,
                            ![c].activeRequestIds = IF id # 0 THEN @ \cup {id} ELSE @]
            /\ UNCHANGED canceledRequests

\* a finally block that leaves the id's mark in the registry
PeerResponseKeepingMark(c, k) ==
    /\ k \in 1..Len(peers[c].awaiting)
    /\ LET id == peers[c].awaiting[k] IN
       /\ peers' = [peers EXCEPT
                       ![c].awaiting = Without(@, k),
                       ![c].inFlightRequests = @ - 1,
                       ![c].activeRequestIds = IF id # 0 THEN @ \ {id} ELSE @]
       /\ UNCHANGED canceledRequests

\* handleRequest returns for the k-th waiting request of connection c: the
\* finally block uncounts it, drops its id and clears the id's mark
PeerResponse(c, k) ==
    /\ k \in 1..Len(peers[c].awaiting)
    /\ LET id == peers[c].awaiting[k] IN
       /\ peers' = [peers EXCEPT
                       ![c].awaiting = Without(@, k),
                       ![c].inFlightRequests = @ - 1,
                       ![c].activeRequestIds = IF id # 0 THEN @ \ {id} ELSE @]
       /\ canceledRequests' = IF id # 0 THEN canceledRequests \ {id}
                              ELSE canceledRequests

\* connection c closes: cancelInFlightRunnerSessions marks every id of its
\* activeRequestIds canceled, in the registry the connections share
PeerClose(c) ==
    /\ ~peers[c].closed
    /\ IF peers[c].canceledInFlight \/ peers[c].inFlightRequests = 0
       THEN /\ peers' = [peers EXCEPT ![c].closed = TRUE]
            /\ UNCHANGED canceledRequests
       ELSE /\ peers' = [peers EXCEPT ![c].closed = TRUE,
                                      ![c].canceledInFlight = TRUE]
            /\ canceledRequests' = canceledRequests \cup peers[c].activeRequestIds

PeersNext ==
    /\ \/ \E c \in DOMAIN peers, id \in RequestIds : PeerRequest(c, id)
       \/ \E c \in DOMAIN peers, k \in 1..MaxRequests : PeerResponse(c, k)
       \/ \E c \in DOMAIN peers : PeerClose(c)
    /\ UNCHANGED <<registryVars, call, sessions, opening, last, handles, stopCalls,
                   batch, http, bootstrap, lockVars, shutdownVars, unsent, buffer,
                   awaiting, inFlightRequests, activeRequestIds, canceledInFlight,
                   destroyed, abortPolls, begun, written>>

PeersSpec == Init /\ [][PeersNext]_vars

\* the requests waiting in handleRequest on connection c that are marked
\* canceled
CanceledOn(c) ==
    {k \in 1..Len(peers[c].awaiting) :
        peers[c].awaiting[k] # 0 /\ peers[c].awaiting[k] \in canceledRequests}

\* C29: closing a connection marks canceled only requests in flight on that
\* connection: a request in flight on a connection that has not closed is not
\* marked canceled, also when another connection's request carries its id
CloseCancelsOwnRequestsOnly ==
    \A c \in DOMAIN peers : ~peers[c].closed => CanceledOn(c) = {}

\* clients on separate connections: requests arrive while others are suspended
ConcurrentNext ==
    \/ \E req \in OpenCloseRequests : HandleRequest(req, TRUE)
    \/ \E o \in opening : OpenFinish(o)
    \/ \E o \in opening : OpenFail(o)

ConcurrentSpec == Init /\ [][ConcurrentNext]_vars

----------------------------------------------------------------------------
(* Daemon launch: daemon.ts acquireDaemonLock and start, two processes *)

\* the processes launched against one state directory, and the pid recorded
\* in a lock left by a daemon that has died
Daemons == {1, 2}
DeadPid == 9
StaleLock == [exists |-> TRUE, owner |-> DeadPid, written |-> TRUE]

\* where a launching process is, and the lock pid that readLockInfo gave it
\* (0 is null)
At(pc, existing) == [pc |-> pc, existing |-> existing]
Goto(p, pc) == daemons' = [daemons EXCEPT ![p].pc = pc]

\* the pid names a running daemon of this codebase
isAgentDeviceDaemonProcess(pid) ==
    /\ pid \in Daemons
    /\ daemons[pid].pc # "exited"

\* tryWriteLock, the open of writeFileSync(lockPath, payload, {flag: 'wx'}): the
\* file is created empty, or the open fails with EEXIST
tryWriteLock(p, created, eexist) ==
    /\ IF lockFile.exists
       THEN Goto(p, eexist) /\ UNCHANGED lockFile
       ELSE /\ Goto(p, created)
            /\ lockFile' = [exists |-> TRUE, owner |-> p, written |-> FALSE]
    /\ UNCHANGED infoFile

\* the first tryWriteLock of acquireDaemonLock
TryWriteLock(p) ==
    /\ daemons[p].pc = "start"
    /\ tryWriteLock(p, "writing", "contended")
    /\ UNCHANGED <<registryVars, call, sessionVars, socketVars, shutdownVars, startup>>

\* the write of writeFileSync: the payload goes to the file the process
\* created, which is at lockPath unless another process has unlinked it
WritePayload(p) ==
    /\ daemons[p].pc = "writing"
    /\ Goto(p, "acquired")
    /\ lockFile' = IF lockFile.exists /\ lockFile.owner = p
                   THEN [lockFile EXCEPT !.written = TRUE] ELSE lockFile
    /\ UNCHANGED infoFile
    /\ UNCHANGED <<registryVars, call, sessionVars, socketVars, shutdownVars, startup>>

\* readLockInfo: existsSync
LockExists(p) ==
    /\ daemons[p].pc = "contended"
    /\ daemons' = [daemons EXCEPT ![p] =
                      IF lockFile.exists THEN At("reading", 0) ELSE At("read", 0)]
    /\ UNCHANGED <<lockFile, infoFile>>
    /\ UNCHANGED <<registryVars, call, sessionVars, socketVars, shutdownVars, startup>>

\* readLockInfo: readFileSync and JSON.parse, null when the file is gone or
\* holds no payload
readLockInfo ==
    IF lockFile.exists /\ lockFile.written THEN lockFile.owner ELSE 0

ReadLockInfo(p) ==
    /\ daemons[p].pc = "reading"
    /\ daemons' = [daemons EXCEPT ![p] = At("read", readLockInfo)]
    /\ UNCHANGED <<lockFile, infoFile>>
    /\ UNCHANGED <<registryVars, call, sessionVars, socketVars, shutdownVars, startup>>

\* acquireDaemonLock after readLockInfo: yield to a live daemon (start then
\* exits with code 0), or go on to remove the lock
CheckOwner(p) ==
    /\ daemons[p].pc = "read"
    /\ LET existing == daemons[p].existing IN
       IF existing # 0 /\ existing # p /\ isAgentDeviceDaemonProcess(existing)
       THEN Goto(p, "exited")
       ELSE Goto(p, "stale")
    /\ UNCHANGED <<lockFile, infoFile>>
    /\ UNCHANGED <<registryVars, call, sessionVars, socketVars, shutdownVars, startup>>

\* fs.unlinkSync(lockPath), errors ignored
UnlinkLock(p) ==
    /\ daemons[p].pc = "stale"
    /\ Goto(p, "retry")
    /\ lockFile' = NoLock
    /\ UNCHANGED infoFile
    /\ UNCHANGED <<registryVars, call, sessionVars, socketVars, shutdownVars, startup>>

\* the second tryWriteLock; EEXIST returns false and start exits with code 0
RetryWriteLock(p) ==
    /\ daemons[p].pc = "retry"
    /\ tryWriteLock(p, "writing", "exited")
    /\ UNCHANGED <<registryVars, call, sessionVars, socketVars, shutdownVars, startup>>

\* start with the lock acquired: the servers listen and writeInfo writes the
\* metadata file
writeInfo(p) == infoFile' = infoFile \cup {p}

Start(p) ==
    /\ daemons[p].pc = "acquired"
    /\ Goto(p, "serving")
    /\ writeInfo(p)
    /\ UNCHANGED lockFile
    /\ UNCHANGED <<registryVars, call, sessionVars, socketVars, shutdownVars, startup>>

\* two launches at once; the lock file is absent or is a stale lock
LockInit ==
    /\ options = DaemonOptions
    /\ RegistryInit
    /\ call = NoCall
    /\ IdlePipeline
    /\ lockFile \in {NoLock, StaleLock}
    /\ infoFile = {}
    /\ daemons = [p \in Daemons |-> At("start", 0)]
    /\ startup = NoStartup
    /\ NoConnection
    /\ NoShutdown

LockNext ==
    \/ \E p \in Daemons : TryWriteLock(p)
    \/ \E p \in Daemons : WritePayload(p)
    \/ \E p \in Daemons : LockExists(p)
    \/ \E p \in Daemons : ReadLockInfo(p)
    \/ \E p \in Daemons : CheckOwner(p)
    \/ \E p \in Daemons : UnlinkLock(p)
    \/ \E p \in Daemons : RetryWriteLock(p)
    \/ \E p \in Daemons : Start(p)

LockSpec == LockInit /\ [][LockNext]_vars

----------------------------------------------------------------------------
(* The socket transport: daemon.ts createSocketServer, one connection *)

\* disconnectAbortMaxWindowMs in polls of disconnectAbortPollIntervalMs
MaxAbortPolls == 2

\* a line of the connection: the n-th request and its meta.requestId (0: the
\* request carries none). Blank is an empty line. text is what the line
\* holds: a JSON request, nothing, white space only, or text that is no JSON.
Blank == [n |-> 0, id |-> 0, text |-> <<>>]
Line(n, id) == [n |-> n, id |-> id, text |-> <<"{", "}">>]
WhiteSpace(n) == [n |-> n, id |-> 0, text |-> <<" ", " ">>]
Unparsable(n) == [n |-> n, id |-> 0, text |-> <<"{">>]
\* what a client sends: requests 1..MaxRequests in this order, a blank line
\* after the first; the second carries no request id and the third repeats
\* the id of the first
ClientLines ==
    [i \in 1..(MaxRequests + 1) |->
        IF i = 1 THEN Line(1, 1)
        ELSE IF i = 2 THEN Blank
        ELSE IF i = 3 THEN Line(2, 0)
        ELSE IF i = 4 THEN Line(3, 1)
        ELSE Line(i - 1, i - 1)]

Canceled == Failure("COMMAND_FAILED", "request canceled")
Written(line, response) == [n |-> line.n, response |-> response]

\* the connection's local state and histories
Conn(B, A, F, Ids, C, Bg, W) ==
    [buffer |-> B, awaiting |-> A, inFlightRequests |-> F, activeRequestIds |-> Ids,
     canceledRequests |-> C, begun |-> Bg, written |-> W]

\* a finally block that writes no response
finishSilently(c, line, response) ==
    [c EXCEPT
       !.inFlightRequests = c.inFlightRequests - 1,
       !.activeRequestIds = IF line.id # 0 THEN c.activeRequestIds \ {line.id}
                            ELSE c.activeRequestIds,
       !.canceledRequests = IF line.id # 0 THEN c.canceledRequests \ {line.id}
                            ELSE c.canceledRequests]

\* the finally block and the write of a response, lines 450-458
finish(c, line, response) ==
    [c EXCEPT
       !.inFlightRequests = c.inFlightRequests - 1,
       !.activeRequestIds = IF line.id # 0 THEN c.activeRequestIds \ {line.id}
                            ELSE c.activeRequestIds,
       !.canceledRequests = IF line.id # 0 THEN c.canceledRequests \ {line.id}
                            ELSE c.canceledRequests,
       !.written = IF destroyed THEN c.written
                   ELSE Append(c.written, Written(line, response))]

\* JSON.parse(line): FALSE is the SyntaxError it throws
parses(text) == Len(text) >= 2 /\ text[1] = "{" /\ text[Len(text)] = "}"
\* normalizeError of an error that is no AppError
ParseFailure == Failure("UNKNOWN", "")

\* the while loop of the data listener, lines 427-460, up to its next await:
\* lines that are empty once trimmed are skipped, a line that JSON.parse
\* rejects and a request whose id is marked canceled are answered at once,
\* any other request is handed to handleRequest and awaited
RECURSIVE drain(_)
drain(c) ==
    IF c.buffer = <<>> THEN c
    ELSE LET line == Head(c.buffer)
             taken == [c EXCEPT !.buffer = Tail(c.buffer)]
             counted == [taken EXCEPT
                           !.inFlightRequests = taken.inFlightRequests + 1,
                           !.begun = Append(taken.begun, line.n),
                           !.activeRequestIds =
                               IF line.id # 0 THEN taken.activeRequestIds \cup {line.id}
                               ELSE taken.activeRequestIds]
         IN  IF Trim(line.text) = <<>> THEN drain(taken)
             ELSE IF ~parses(Trim(line.text))
             THEN drain(finish(counted, line, ParseFailure))
             ELSE IF line.id # 0 /\ line.id \in c.canceledRequests
             THEN drain(finish(counted, line, Canceled))
             ELSE [counted EXCEPT !.awaiting = counted.awaiting \cup {line}]

Connection ==
    Conn(buffer, awaiting, inFlightRequests, activeRequestIds, canceledRequests,
         begun, written)

Becomes(c) ==
    /\ buffer' = c.buffer
    /\ awaiting' = c.awaiting
    /\ inFlightRequests' = c.inFlightRequests
    /\ activeRequestIds' = c.activeRequestIds
    /\ canceledRequests' = c.canceledRequests
    /\ begun' = c.begun
    /\ written' = c.written

\* socket.on('data'): a chunk of k lines arrives and the listener runs up to
\* its first await, whether or not an earlier run of it is suspended
Data(k) ==
    /\ ~destroyed
    /\ k \in 1..Len(unsent)
    /\ unsent' = SubSeq(unsent, k + 1, Len(unsent))
    /\ \E c \in {drain([Connection EXCEPT !.buffer = buffer \o SubSeq(unsent, 1, k)])} :
          Becomes(c)
    /\ UNCHANGED <<canceledInFlight, destroyed, abortPolls, daemonVars>>

\* the response of handleRequest to a request in flight: that of its handler,
\* which is request canceled when the handler sees the request's id canceled
Responses(line) ==
    {Success} \cup
    (IF line.id # 0 /\ line.id \in canceledRequests THEN {Canceled} ELSE {})

\* await handleRequest returns: the response is written and the listener goes
\* on with the lines in the buffer
Resume(line, response) ==
    /\ line \in awaiting
    /\ response \in Responses(line)
    /\ \E c \in {drain(finish([Connection EXCEPT !.awaiting = awaiting \ {line}],
                              line, response))} :
          Becomes(c)
    /\ UNCHANGED <<unsent, canceledInFlight, destroyed, abortPolls, daemonVars>>

\* socket 'close' or 'error': cancelInFlightRunnerSessions, lines 399-420; the
\* abort loop it starts runs until the window is over or nothing is in flight
cancelInFlightRunnerSessions ==
    IF canceledInFlight \/ inFlightRequests = 0
    THEN [canceledInFlight |-> canceledInFlight, canceledRequests |-> canceledRequests,
          abortPolls |-> abortPolls]
    ELSE [canceledInFlight |-> TRUE,
          canceledRequests |-> canceledRequests \cup activeRequestIds,
          abortPolls |-> MaxAbortPolls]

Close ==
    /\ ~destroyed
    /\ destroyed' = TRUE
    /\ canceledInFlight' = cancelInFlightRunnerSessions.canceledInFlight
    /\ canceledRequests' = cancelInFlightRunnerSessions.canceledRequests
    /\ abortPolls' = cancelInFlightRunnerSessions.abortPolls
    /\ UNCHANGED <<unsent, buffer, awaiting, inFlightRequests, activeRequestIds, begun,
                   written, daemonVars>>

\* one turn of the abort loop, lines 413-419: the runner sessions are signalled
\* and the loop sleeps one poll interval, or it ends with nothing in flight
AbortPoll ==
    /\ abortPolls > 0
    /\ abortPolls' = IF inFlightRequests > 0 THEN abortPolls - 1 ELSE 0
    /\ UNCHANGED <<unsent, buffer, awaiting, inFlightRequests, activeRequestIds,
                   canceledInFlight, canceledRequests, destroyed, begun, written,
                   daemonVars>>

SocketInit ==
    /\ options = DaemonOptions
    /\ RegistryInit
    /\ call = NoCall
    /\ IdlePipeline
    /\ NoLaunch
    /\ NoShutdown
    /\ unsent = ClientLines
    /\ buffer = <<>>
    /\ awaiting = {}
    /\ inFlightRequests = 0
    /\ activeRequestIds = {}
    /\ canceledInFlight = FALSE
    /\ canceledRequests = {}
    /\ destroyed = FALSE
    /\ abortPolls = 0
    /\ begun = <<>>
    /\ written = <<>>

SocketNext ==
    \/ \E k \in 1..(MaxRequests + 1) : Data(k)
    \/ \E line \in awaiting : \E response \in {Success, Canceled} : Resume(line, response)
    \/ Close
    \/ AbortPoll

SocketSpec == SocketInit /\ [][SocketNext]_vars

\* a client whose second line is no JSON and whose third is white space only;
\* the first request carries an id, which the fifth repeats, the others none
FramedLines ==
    [i \in 1..(MaxRequests + 2) |->
        IF i = 1 THEN Line(1, 1)
        ELSE IF i = 2 THEN Unparsable(2)
        ELSE IF i = 3 THEN WhiteSpace(3)
        ELSE IF i = 5 THEN Line(5, 1)
        ELSE Line(i, 0)]

FramingInit ==
    /\ options = DaemonOptions
    /\ RegistryInit
    /\ call = NoCall
    /\ IdlePipeline
    /\ NoLaunch
    /\ NoShutdown
    /\ unsent = FramedLines
    /\ buffer = <<>>
    /\ awaiting = {}
    /\ inFlightRequests = 0
    /\ activeRequestIds = {}
    /\ canceledInFlight = FALSE
    /\ canceledRequests = {}
    /\ destroyed = FALSE
    /\ abortPolls = 0
    /\ begun = <<>>
    /\ written = <<>>

FramingSpec == FramingInit /\ [][SocketNext]_vars

----------------------------------------------------------------------------
(* Shutdown: daemon.ts start, the shutdown closure and releaseDaemonLock *)

MaxConnections == 2
MaxSignals == 2
MaxReads == 2

\* the daemon that serves, and another process that may have taken the lock
Self == 1
Other == 2
OwnLock == [exists |-> TRUE, owner |-> Self, written |-> TRUE]
OtherLock == [exists |-> TRUE, owner |-> Other, written |-> TRUE]

\* sessions open when the signal arrives
OneSession == MapSet(EmptyMap, Default, SessionState(IosDevice))
TwoSessions == MapSet(OneSession, Named, SessionState(AndroidDevice))

\* removeInfo: the metadata file is unlinked
removeInfo == {}

\* a release that returns without unlinking
releaseDaemonLockKept(pid) == lockFile

\* releaseDaemonLock: the lock of another process is left alone
releaseDaemonLock(pid) ==
    IF readLockInfo # 0 /\ readLockInfo # pid THEN lockFile ELSE NoLock

\* a client connects to a listening server, or its connection ends
ClientConnect ==
    /\ exitCode = -1
    /\ ~shuttingDown
    /\ connections < MaxConnections
    /\ connections' = connections + 1
    /\ UNCHANGED <<shuttingDown, runnerSessions, journaled, drained, triggers, exitCode,
                   registryVars, call, sessionVars, lockVars, socketVars>>

ClientDisconnect ==
    /\ exitCode = -1
    /\ connections > 0
    /\ connections' = connections - 1
    /\ UNCHANGED <<shuttingDown, runnerSessions, journaled, drained, triggers, exitCode,
                   registryVars, call, sessionVars, lockVars, socketVars>>

\* the events that call shutdown, lines 566-579
Triggers == {"SIGINT", "SIGTERM", "SIGHUP", "uncaughtException"}

\* a shutdown that takes no notice of one already under way
alreadyShuttingDownNever == FALSE

\* if (shuttingDown) return, line 553
alreadyShuttingDown == shuttingDown

\* SIGINT, SIGTERM, SIGHUP or uncaughtException: shutdown() up to its first
\* await, closeServers; a call that finds shuttingDown set returns at once
Signal(sig) ==
    /\ exitCode = -1
    /\ Len(triggers) < MaxSignals
    /\ triggers' = Append(triggers, [signal |-> sig, ran |-> ~alreadyShuttingDown,
                                     at |-> Len(drained)])
    /\ shuttingDown' = TRUE
    /\ UNCHANGED <<connections, runnerSessions, journaled, drained, exitCode,
                   registryVars, call, sessionVars, lockVars, socketVars>>

\* await closeServers() returns, every server having emitted 'close' (its
\* connections have ended); the journals are written and
\* stopAllIosRunnerSessions is called
ServersClosed ==
    /\ exitCode = -1
    /\ shuttingDown
    /\ drained = <<>>
    /\ connections = 0
    /\ journaled' = DOMAIN sessions
    /\ drained' = <<"servers", "journals">>
    /\ UNCHANGED <<shuttingDown, connections, runnerSessions, triggers, exitCode,
                   registryVars, call, sessionVars, lockVars, socketVars>>

\* await stopAllIosRunnerSessions() returns; removeInfo, releaseDaemonLock and
\* process.exit(0)
RunnersStopped ==
    /\ exitCode = -1
    /\ drained = <<"servers", "journals">>
    /\ runnerSessions' = {}
    /\ infoFile' = removeInfo
    /\ lockFile' = releaseDaemonLock(Self)
    /\ drained' = drained \o <<"runners", "info", "lock">>
    /\ exitCode' = 0
    /\ UNCHANGED <<shuttingDown, connections, journaled, triggers, daemons, startup,
                   registryVars, call, sessionVars, socketVars>>

\* a daemon that serves: metadata written, handlers installed; the lock is its
\* own or that of a process that has taken it over
ShutdownInit ==
    /\ options = DaemonOptions
    /\ RegistryInit
    /\ call = NoCall
    /\ sessions \in {EmptyMap, OneSession, TwoSessions}
    /\ opening = {}
    /\ last = [presented |-> Undef, response |-> Success, stages |-> {}]
    /\ handles = {}
    /\ stopCalls = <<>>
    /\ batch = NoBatch
    /\ http = NoHttp
    /\ bootstrap = NoBootstrap
    /\ peers = NoPeers
    /\ lockFile \in {OwnLock, OtherLock, NoLock}
    /\ infoFile = {Self}
    /\ daemons = [p \in {Self} |-> At("serving", 0)]
    /\ startup = NoStartup
    /\ NoConnection
    /\ shuttingDown = FALSE
    /\ connections = 0
    /\ runnerSessions \in {{}, {"runner-1"}}
    /\ journaled = {}
    /\ drained = <<>>
    /\ triggers = <<>>
    /\ exitCode = -1

ShutdownNext ==
    \/ ClientConnect
    \/ ClientDisconnect
    \/ \E sig \in Triggers : Signal(sig)
    \/ ServersClosed
    \/ RunnersStopped

\* every callback that is ready runs, and every connection ends
ShutdownSpec ==
    /\ ShutdownInit
    /\ [][ShutdownNext]_vars
    /\ WF_vars(ClientDisconnect)
    /\ WF_vars(ServersClosed)
    /\ WF_vars(RunnersStopped)

----------------------------------------------------------------------------
(* Properties of the lease registry, over LeaseSpec *)

\* the stored leases that have not expired, and the registry restricted to them
ActiveIds == {id \in DOMAIN leases : leases[id].expiresAt > now}
OnlySwept(out) ==
    /\ out.leases = [id \in ActiveIds |-> leases[id]]
    /\ out.runBindings =
          [k \in {x \in DOMAIN runBindings : runBindings[x] \in ActiveIds}
              |-> runBindings[k]]
    /\ out.minted = minted

\* the optional tenant and run of a heartbeat or release, against a lease
ScopeMatches(request, lease) ==
    /\ Truthy(request.tenantId) => TenantIdOf[request.tenantId] = lease.tenantId
    /\ Truthy(request.runId) => RunIdOf[request.runId] = lease.runId
ScopeDiffers(request, lease) ==
    /\ Truthy(request.tenantId) => TenantIdOf[request.tenantId] # Undef
    /\ Truthy(request.runId) => RunIdOf[request.runId] # Undef
    /\ ~ScopeMatches(request, lease)

\* C5: while a lease for (tenant, run, backend) is unexpired, every allocate
\* for the same (tenant, run, backend) whose ttlMs resolves (absent, or within
\* the bounds) returns that lease's id, leaves the stored leases at exactly the
\* unexpired ones, mints nothing, and sets the lease's heartbeatAt to now and
\* its expiresAt to now plus the resolved TTL, changing nothing else of it.
AllocateIsIdempotent ==
    \A request \in AllocateRequests : \A id \in ActiveIds :
        LET backend == normalizeLeaseBackend(request.backend)
            leaseTtlMs == resolveLeaseTtlMs(request.ttlMs)
            out == allocateLease(request)
        IN  (/\ backend.ok
             /\ backend.backend = leases[id].backend
             /\ TenantIdOf[request.tenantId] = leases[id].tenantId
             /\ RunIdOf[request.runId] = leases[id].runId
             /\ leaseTtlMs.ok)
            => /\ out.res.ok
               /\ out.res.lease.leaseId = id
               /\ DOMAIN out.leases = ActiveIds
               /\ out.minted = minted
               /\ out.leases[id] =
                     [leases[id] EXCEPT !.heartbeatAt = now,
                                        !.expiresAt = now + leaseTtlMs.ttl]
               /\ out.res.lease = out.leases[id]

\* an allocate has returned a lease created at an earlier tick: a refresh
AllocateRefreshed ==
    /\ call.op = "allocateLease"
    /\ call.res.ok
    /\ call.res.lease.createdAt < call.res.lease.heartbeatAt

\* C6 (as amended): release of a well-formed lease id that names no unexpired
\* lease returns {released: false} and leaves every unexpired lease and its
\* binding as they were, the expired leases being swept; release of an
\* unexpired lease (optional scope matching) returns {released: true} and
\* removes the lease and its binding; every id once released is no longer
\* stored and a further release of it returns {released: false}.
ReleaseIsIdempotent ==
    /\ \A request \in ReleaseRequests :
          LET leaseId == LeaseIdFor[request.leaseId]
              out == releaseLease(request)
          IN  /\ (leaseId # Undef /\ leaseId \notin ActiveIds)
                 => out.res = Returned(NoLease, FALSE) /\ OnlySwept(out)
              /\ (leaseId \in ActiveIds /\ ScopeMatches(request, leases[leaseId]))
                 => /\ out.res = Returned(NoLease, TRUE)
                    /\ out.leases = [id \in ActiveIds \ {leaseId} |-> leases[id]]
                    /\ \A k \in DOMAIN out.runBindings : out.runBindings[k] # leaseId
    /\ \A leaseId \in releasedIds :
          /\ leaseId \notin DOMAIN leases
          /\ \A request \in ReleaseRequests :
                LeaseIdFor[request.leaseId] = leaseId
                => releaseLease(request).res = Returned(NoLease, FALSE)

\* a released id has been released again, the call sweeping an expired lease
ReleasedAgainWhileSweeping ==
    /\ call.op = "releaseLease"
    /\ call.res = Returned(NoLease, FALSE)
    /\ call.target \in releasedIds
    /\ call.swept # {}

\* C6 (as stated): release of a lease that is not stored returns
\* {released: false} and changes nothing; release of an unexpired lease returns
\* {released: true} and removes it; a repeated release returns {released: false}.
ReleaseOfAbsentChangesNothing ==
    /\ \A request \in ReleaseRequests :
          LET leaseId == LeaseIdFor[request.leaseId]
              out == releaseLease(request)
          IN  /\ (leaseId # Undef /\ leaseId \notin DOMAIN leases)
                 => /\ out.res = Returned(NoLease, FALSE)
                    /\ out.leases = leases
                    /\ out.runBindings = runBindings
              /\ (leaseId \in ActiveIds /\ ScopeMatches(request, leases[leaseId]))
                 => /\ out.res = Returned(NoLease, TRUE)
                    /\ leaseId \notin DOMAIN out.leases
    /\ \A leaseId \in releasedIds : \A request \in ReleaseRequests :
          LeaseIdFor[request.leaseId] = leaseId
          => releaseLease(request).res = Returned(NoLease, FALSE)

\* C7 (as amended): heartbeat or release of an unexpired lease with a
\* well-formed optional tenant or run that differs from the lease's fails with
\* UNAUTHORIZED / LEASE_SCOPE_MISMATCH; every unexpired lease (heartbeatAt and
\* expiresAt included) and its binding are as before the call, and the expired
\* leases and their bindings are swept.
ScopeMismatchOnlySweeps ==
    /\ \A request \in HeartbeatRequests :
          LET leaseId == LeaseIdFor[request.leaseId]
              out == heartbeatLease(request)
          IN  (leaseId \in ActiveIds /\ ScopeDiffers(request, leases[leaseId]))
              => /\ out.res = Thrown("UNAUTHORIZED", "LEASE_SCOPE_MISMATCH")
                 /\ OnlySwept(out)
    /\ \A request \in ReleaseRequests :
          LET leaseId == LeaseIdFor[request.leaseId]
              out == releaseLease(request)
          IN  (leaseId \in ActiveIds /\ ScopeDiffers(request, leases[leaseId]))
              => /\ out.res = Thrown("UNAUTHORIZED", "LEASE_SCOPE_MISMATCH")
                 /\ OnlySwept(out)

\* a heartbeat or release has failed on its scope, having swept an expired lease
ScopeMismatchWhileSweeping ==
    /\ call.op \in {"heartbeatLease", "releaseLease"}
    /\ call.res = Thrown("UNAUTHORIZED", "LEASE_SCOPE_MISMATCH")
    /\ call.target \in DOMAIN leases
    /\ call.swept # {}

\* C7 (as stated): the same calls fail with UNAUTHORIZED / LEASE_SCOPE_MISMATCH
\* and the stored leases and the run bindings are the same after the call as
\* before it.
ScopeMismatchLeavesRegistry ==
    /\ \A request \in HeartbeatRequests :
          LET leaseId == LeaseIdFor[request.leaseId]
              out == heartbeatLease(request)
          IN  (leaseId \in ActiveIds /\ ScopeDiffers(request, leases[leaseId]))
              => /\ out.res = Thrown("UNAUTHORIZED", "LEASE_SCOPE_MISMATCH")
                 /\ out.leases = leases
                 /\ out.runBindings = runBindings
    /\ \A request \in ReleaseRequests :
          LET leaseId == LeaseIdFor[request.leaseId]
              out == releaseLease(request)
          IN  (leaseId \in ActiveIds /\ ScopeDiffers(request, leases[leaseId]))
              => /\ out.res = Thrown("UNAUTHORIZED", "LEASE_SCOPE_MISMATCH")
                 /\ out.leases = leases
                 /\ out.runBindings = runBindings

\* the ids minted so far whose lease ran out (now >= expiresAt) unreleased
LapsedIds ==
    ({LeaseIdOf(k) : k \in 1..minted} \ ActiveIds) \ releasedIds

\* C8: a lease whose expiresAt the clock has reached is absent for every
\* operation: heartbeat fails with UNAUTHORIZED / LEASE_NOT_FOUND, admission
\* never passes and fails with UNAUTHORIZED / LEASE_NOT_FOUND once its tenant,
\* run and backend are well-formed, release returns {released: false}, the
\* listing leaves it out, and an allocate for its scope returns another id;
\* and no lease stays unexpired at or after its expiresAt.
ExpiredLeaseIsAbsent ==
    /\ \A id \in DOMAIN leases : id \in ActiveIds <=> ~(now >= leases[id].expiresAt)
    /\ \A leaseId \in LapsedIds :
          /\ \A request \in HeartbeatRequests :
                LeaseIdFor[request.leaseId] = leaseId
                => heartbeatLease(request).res = Thrown("UNAUTHORIZED", "LEASE_NOT_FOUND")
          /\ \A request \in AdmissionRequests :
                LeaseIdFor[request.leaseId] = leaseId
                => LET res == assertLeaseAdmission(request).res IN
                   /\ ~res.ok
                   /\ (/\ TenantIdOf[request.tenantId] # Undef
                       /\ RunIdOf[request.runId] # Undef
                       /\ normalizeLeaseBackend(request.backend).ok)
                      => res = Thrown("UNAUTHORIZED", "LEASE_NOT_FOUND")
          /\ \A request \in ReleaseRequests :
                LeaseIdFor[request.leaseId] = leaseId
                => releaseLease(request).res = Returned(NoLease, FALSE)
          /\ leaseId \notin DOMAIN listActiveLeases.leases
          /\ \A request \in AllocateRequests :
                LET out == allocateLease(request) IN
                out.res.ok => out.res.lease.leaseId # leaseId

\* a heartbeat named a stored lease at the tick of its expiry and did not find it
HeartbeatOnExpiredLease ==
    /\ call.op = "heartbeatLease"
    /\ call.res = Thrown("UNAUTHORIZED", "LEASE_NOT_FOUND")
    /\ call.target \in call.swept

\* C9: assertLeaseAdmission returns only when tenant, run and lease id are
\* supplied and well-formed and an unexpired lease with that id has exactly
\* that tenant, run and backend; a missing or malformed field fails with
\* INVALID_ARGS, otherwise an unknown or expired lease id with UNAUTHORIZED /
\* LEASE_NOT_FOUND, otherwise a scope mismatch with UNAUTHORIZED /
\* LEASE_SCOPE_MISMATCH.
AdmissionConditions ==
    \A request \in AdmissionRequests :
        LET backend == normalizeLeaseBackend(request.backend)
            tenantId == TenantIdOf[request.tenantId]
            runId == RunIdOf[request.runId]
            leaseId == LeaseIdFor[request.leaseId]
            wellFormed == backend.ok /\ tenantId # Undef /\ runId # Undef /\ leaseId # Undef
            held == leaseId \in ActiveIds
            matches == /\ leases[leaseId].tenantId = tenantId
                       /\ leases[leaseId].runId = runId
                       /\ leases[leaseId].backend = backend.backend
            res == assertLeaseAdmission(request).res
        IN  /\ res.ok <=> (wellFormed /\ held /\ matches)
            /\ ~wellFormed => res = Thrown("INVALID_ARGS", "")
            /\ (wellFormed /\ ~held) => res = Thrown("UNAUTHORIZED", "LEASE_NOT_FOUND")
            /\ (wellFormed /\ held /\ ~matches)
               => res = Thrown("UNAUTHORIZED", "LEASE_SCOPE_MISMATCH")

\* an admission has passed, for a lease that is stored and unexpired
AdmissionPassed ==
    /\ call.op = "assertLeaseAdmission"
    /\ call.res.ok
    /\ call.target \in DOMAIN leases
    /\ leases[call.target].expiresAt > now


----------------------------------------------------------------------------
(* Properties of the request pipeline, over Spec and ConcurrentSpec *)

\* the scope a request carries, as handleRequest reads it
IsolationOf(req) ==
    resolveSessionIsolationMode(Coalesce(req.meta.sessionIsolation,
                                         req.flags.sessionIsolation))
TenantOf(req) == TenantIdOf[Coalesce(Coalesce(req.meta.tenantId, req.flags.tenant), <<>>)]
RunOf(req) == RunIdOf[Coalesce(Coalesce(req.meta.runId, req.flags.runId), <<>>)]
PresentedBy(req) ==
    LeaseIdFor[Coalesce(Coalesce(req.meta.leaseId, req.flags.leaseId), <<>>)]

\* the commands the admission gate is about
Gated(req) ==
    /\ IsolationOf(req) = "tenant"
    /\ normalizeAliasedCommands(req).command \notin
          {"session_list", "devices", "lease_allocate", "lease_heartbeat",
           "lease_release"}

\* the request's (tenant, run, leaseId) is that of a stored, unexpired lease
MatchesUnexpiredLease(req) ==
    /\ TenantOf(req) # Undef
    /\ RunOf(req) # Undef
    /\ PresentedBy(req) \in ActiveIds
    /\ leases[PresentedBy(req)].tenantId = TenantOf(req)
    /\ leases[PresentedBy(req)].runId = RunOf(req)

RanHandlers(out) == out.stages \cap {"handlers", "dispatch", "journal"} # {}

\* the same requests, each with a token that is not the daemon's
WrongTokenRequests == {[req EXCEPT !.token = BadToken] : req \in Requests}

\* C2: after any interleaving of open and close requests across sessions, no
\* device identifier is bound to more than one session of the session store.
OneSessionPerDevice ==
    \A n1 \in DOMAIN sessions : \A n2 \in DOMAIN sessions :
        sessions[n1].device.id = sessions[n2].device.id => n1 = n2

\* C3: a request under tenant isolation whose command is not exempt runs a
\* handler group or the dispatcher only if its (tenant, run, leaseId) matches
\* an unexpired lease of the registry when it is admitted; without such a lease
\* it fails with INVALID_ARGS or UNAUTHORIZED and the session store is as it was.
AdmissionGate ==
    \A req \in Requests : \A deviceOk \in BOOLEAN :
        LET out == handleRequest(req, deviceOk) IN
        Gated(req) =>
            /\ RanHandlers(out) => MatchesUnexpiredLease(req)
            /\ ~MatchesUnexpiredLease(req) =>
                  /\ ~out.response.ok
                  /\ out.response.code \in {"INVALID_ARGS", "UNAUTHORIZED"}
                  /\ out.sessions = sessions
                  /\ out.opening = opening

\* an admitted request went on to the dispatcher
AdmittedAndDispatched ==
    /\ "admission" \in last.stages
    /\ "dispatch" \in last.stages
    /\ last.presented \in DOMAIN leases

\* C4: a request whose token differs from the daemon's secret is answered with
\* UNAUTHORIZED and no details; no scoping, admission, handler or dispatch
\* stage runs, and the leases, the run bindings, the sessions and their
\* journals are as they were.
WrongTokenIsInert ==
    \A req \in WrongTokenRequests \cup {r \in Requests : r.token # "token"} :
        \A deviceOk \in BOOLEAN :
            LET out == handleRequest(req, deviceOk) IN
            /\ out.response = [ok |-> FALSE, code |-> "UNAUTHORIZED", reason |-> ""]
            /\ statusCodeForNormalizedError(out.response.code) = 401
            /\ out.stages = {}
            /\ out.leases = leases
            /\ out.runBindings = runBindings
            /\ out.minted = minted
            /\ ~out.released
            /\ out.sessions = sessions
            /\ out.opening = opening

\* a wrong token was answered while leases and sessions were stored
WrongTokenAnswered ==
    /\ last.stages = {}
    /\ last.response = [ok |-> FALSE, code |-> "UNAUTHORIZED", reason |-> ""]
    /\ DOMAIN leases # {}
    /\ DOMAIN sessions # {}

\* C10: once a lease is released, a request under tenant isolation with a
\* non-exempt command that presents its leaseId never runs a handler; with a
\* well-formed tenant and run it is rejected with UNAUTHORIZED, HTTP 401, also
\* while a newer lease of the same tenant and run is active.
ReleasedLeaseIsRejected ==
    \A req \in Requests : \A deviceOk \in BOOLEAN :
        LET out == handleRequest(req, deviceOk) IN
        (Gated(req) /\ req.token = "token" /\ PresentedBy(req) \in releasedIds) =>
            /\ ~out.response.ok
            /\ ~RanHandlers(out)
            /\ out.sessions = sessions
            /\ (TenantOf(req) # Undef /\ RunOf(req) # Undef) =>
                  /\ out.response.code = "UNAUTHORIZED"
                  /\ statusCodeForNormalizedError(out.response.code) = 401

\* a released leaseId was presented and rejected while a newer lease of the
\* tenant and run was active
ReleasedIdRejectedBesideNewLease ==
    /\ last.presented \in releasedIds
    /\ "admission" \in last.stages
    /\ last.response.code = "UNAUTHORIZED"
    /\ \E id \in ActiveIds :
          /\ id # last.presented
          /\ leases[id].tenantId = TenantA
          /\ leases[id].runId = Run1
          /\ runBindings[bindingKey(TenantA, Run1, IosSimulator)] = id


----------------------------------------------------------------------------
(* Properties of the daemon launch, over LockSpec *)

Launched(p) == daemons[p].pc \in {"serving", "exited"}

\* C1: of two daemons launched at once against one state directory, the lock
\* file absent or stale, never two hold the lock, and once both launches are
\* over exactly one serves and the other has exited without writing the
\* metadata file.
ExactlyOneDaemonServes ==
    /\ Cardinality({p \in Daemons : daemons[p].pc \in {"acquired", "serving"}}) <= 1
    /\ (\A p \in Daemons : Launched(p)) =>
          \E winner \in Daemons :
              /\ daemons[winner].pc = "serving"
              /\ infoFile = {winner}
              /\ \A p \in Daemons \ {winner} : daemons[p].pc = "exited"


----------------------------------------------------------------------------
(* Properties of the socket transport, over SocketSpec *)

\* C11: on one socket connection the handling of a request does not begin
\* before the previous request of the connection has completed, and the
\* responses are written in the order in which the requests were received.
SerialInArrivalOrder ==
    /\ Cardinality(awaiting) <= 1
    /\ \A i \in 1..Len(begun) : begun[i] = i
    /\ \A i \in 1..Len(written) : \A j \in 1..Len(written) :
          i < j => written[i].n < written[j].n


----------------------------------------------------------------------------
(* Properties of the shutdown, over ShutdownSpec *)

ShutdownOrder == <<"servers", "journals", "runners", "info", "lock">>

\* the daemon has exited with code 0, every step of the drain done in order
DrainedAndExited ==
    /\ exitCode = 0
    /\ drained = ShutdownOrder
    /\ journaled = DOMAIN sessions
    /\ runnerSessions = {}
    /\ infoFile = {}
    /\ ~(lockFile.exists /\ lockFile.owner = Self)

----------------------------------------------------------------------------
(* Selector compatibility, over SessionSpec *)

\* selectors a request may carry, and whether each is compatible with a
\* session on IosDevice (iOS simulator s1 "Sim", mobile, device set /a) and
\* with one on AndroidDevice (Android emulator e1 "Px", tv)
Case(flag, value, ios, android) ==
    [flag |-> flag, value |-> value, ios |-> ios, android |-> android]
SelectorCases ==
    {Case("platform", Ios, TRUE, FALSE), Case("platform", Android, FALSE, TRUE),
     Case("platform", Apple, TRUE, FALSE),
     Case("target", Mobile, TRUE, FALSE), Case("target", Tv, FALSE, TRUE),
     Case("udid", <<"s", "1">>, TRUE, FALSE), Case("udid", <<"s", "2">>, FALSE, FALSE),
     Case("udid", <<"e", "1">>, FALSE, FALSE), Case("udid", <<>>, TRUE, TRUE),
     Case("serial", <<"e", "1">>, FALSE, TRUE), Case("serial", <<"s", "1">>, FALSE, FALSE),
     Case("device", <<" ", "s", "I", "M">>, TRUE, FALSE),
     Case("device", <<"P", "x">>, FALSE, TRUE),
     Case("iosSimulatorDeviceSet", <<"/", "a", " ">>, TRUE, FALSE),
     Case("iosSimulatorDeviceSet", <<"/", "b">>, FALSE, FALSE),
     Case("androidDeviceAllowlist", <<"e", "2", ",", " ", "e", "1">>, FALSE, TRUE),
     Case("androidDeviceAllowlist", <<"e", "2">>, FALSE, FALSE),
     Case("androidDeviceAllowlist", <<"s", "1">>, FALSE, FALSE)}
PairedCases ==
    {<<Case("platform", Android, FALSE, TRUE), Case("udid", <<"s", "2">>, FALSE, FALSE)>>,
     <<Case("target", Tv, FALSE, TRUE), Case("device", <<"P", "x">>, FALSE, TRUE)>>,
     <<Case("serial", <<"e", "1">>, FALSE, TRUE),
       Case("iosSimulatorDeviceSet", <<"/", "b">>, FALSE, FALSE)>>}

With(flags, c) ==
    CASE c.flag = "platform" -> [flags EXCEPT !.platform = c.value]
      [] c.flag = "target" -> [flags EXCEPT !.target = c.value]
      [] c.flag = "udid" -> [flags EXCEPT !.udid = c.value]
      [] c.flag = "serial" -> [flags EXCEPT !.serial = c.value]
      [] c.flag = "device" -> [flags EXCEPT !.device = c.value]
      [] c.flag = "iosSimulatorDeviceSet" -> [flags EXCEPT !.iosSimulatorDeviceSet = c.value]
      [] OTHER -> [flags EXCEPT !.androidDeviceAllowlist = c.value]

\* the flags of the cases cs that are incompatible with the device
Offending(cs, device) ==
    {c.flag : c \in {x \in cs : IF device.platform = Ios THEN ~x.ios ELSE ~x.android}}

\* commands of every handler group and of the dispatcher, the backend call of
\* the dispatcher succeeding or failing
SelectorCalls ==
    {<<"click", TRUE>>, <<"open", TRUE>>, <<"close", TRUE>>, <<"home", TRUE>>,
     <<"home", FALSE>>}

\* C14: a request with a command other than session_list and devices, whose
\* effective session exists and which carries a selector incompatible with the
\* session's device, fails and runs no handler group and no dispatcher; once
\* past the token, scope and admission checks it fails with INVALID_ARGS
\* naming exactly the offending flags. A request whose selectors are all
\* compatible is not rejected for them.
SelectorMismatchIsRejected ==
    \A called \in SelectorCalls :
    \A cs \in {{c} : c \in SelectorCases} \cup {{p[1], p[2]} : p \in PairedCases} :
    \A meta \in {NoMeta, Scoped(TenantA, LeaseIdOf(1))} :
        LET flags == IF Cardinality(cs) = 1
                     THEN With(NoFlags, CHOOSE c \in cs : TRUE)
                     ELSE LET p == CHOOSE q \in PairedCases : {q[1], q[2]} = cs
                          IN  With(With(NoFlags, p[1]), p[2])
            req == DaemonRequest("token", called[1], Undef, meta, flags)
            name == IF meta = NoMeta THEN Default ELSE TenantA \o <<":">> \o Default
            out == handleRequest(req, called[2])
        IN  name \in DOMAIN sessions =>
              LET offending == Offending(cs, sessions[name].device) IN
              /\ offending # {} =>
                    /\ ~out.response.ok
                    /\ ~RanHandlers(out)
                    /\ out.sessions = sessions
                    /\ out.opening = opening
                    /\ (meta = NoMeta \/ MatchesUnexpiredLease(req)) =>
                          /\ out.response.code = "INVALID_ARGS"
                          /\ out.mismatches = offending
              /\ offending = {} => out.mismatches = {}

\* a command on an existing session was rejected for its selector
SelectorRejected ==
    /\ "selector" \in last.stages
    /\ last.response.code = "INVALID_ARGS"
    /\ "handlers" \notin last.stages
    /\ sessions # EmptyMap

\* the requests under tenant isolation that carry the daemon's token, and the
\* same requests with the tenant id taken away
TenantIsolated == {req \in Requests : req.token = "token" /\ IsolationOf(req) = "tenant"}
WithoutTenant ==
    {[req EXCEPT !.meta.tenantId = Undef, !.flags.tenant = Undef] : req \in TenantIsolated}

\* the sessions a call of handleRequest created, deleted, journaled to or
\* began to open
Touched(out) ==
    {name \in DOMAIN out.sessions \cup DOMAIN sessions :
        \/ name \notin DOMAIN out.sessions
        \/ name \notin DOMAIN sessions
        \/ out.sessions[name] # sessions[name]}
    \cup {o.session : o \in out.opening \ opening}

\* C15: under sessionIsolation = tenant a request without a valid tenant id
\* (meta.tenantId or flags.tenant) fails with INVALID_ARGS, HTTP 400, whatever
\* its command, session_list and the lease commands included, and no handler
\* runs; with a valid tenant id the only session it touches or looks up is
\* "<tenant>:<name>", where name is the request's session or "default".
TenantScoping ==
    \A req \in TenantIsolated \cup WithoutTenant : \A deviceOk \in BOOLEAN :
        LET out == handleRequest(req, deviceOk)
            name == TenantOf(req) \o <<":">> \o
                       (IF req.session = Undef THEN <<"default">> ELSE req.session)
        IN  IF TenantOf(req) = Undef
            THEN /\ ~out.response.ok
                 /\ out.response.code = "INVALID_ARGS"
                 /\ statusCodeForNormalizedError(out.response.code) = 400
                 /\ ~RanHandlers(out)
                 /\ out.leases = leases
                 /\ out.runBindings = runBindings
                 /\ out.sessions = sessions
                 /\ out.opening = opening
            ELSE /\ Touched(out) \subseteq {name}
                 /\ (/\ RanHandlers(out)
                     /\ req.command \in {"close", "click", "home", "keyboard"}
                     /\ name \notin DOMAIN sessions)
                    => out.response.code = "SESSION_NOT_FOUND"
                 /\ (/\ RanHandlers(out)
                     /\ req.command = "close"
                     /\ name \in DOMAIN sessions)
                    => name \notin DOMAIN out.sessions

\* a request under tenant isolation (the only ones that present a leaseId and
\* stop at scoping) was refused for want of a valid tenant id while a session
\* of a tenant, opened under an explicit name, was stored
TenantlessRequestRefused ==
    /\ last.presented # Undef
    /\ last.stages = {"scope"}
    /\ last.response.code = "INVALID_ARGS"
    /\ (TenantA \o <<":">> \o Named) \in DOMAIN sessions

----------------------------------------------------------------------------
(* The TTL of an allocated lease, over LeaseSpec *)

\* the TTL bounds of the registry as the options give them: 5 s and 600 s
\* unless configured
LowestTtl == IF options.minLeaseTtlMs = <<>> THEN 5000 ELSE options.minLeaseTtlMs[1]
HighestTtl == IF options.maxLeaseTtlMs = <<>> THEN 600000 ELSE options.maxLeaseTtlMs[1]
Clamp(v, lo, hi) == IF v < lo THEN lo ELSE IF v > hi THEN hi ELSE v

\* the ttlMs values supplied: around the configured and the default bounds
TtlInputs == {0, 1, 2, 3, 4999, 5000, 600000, 600001}

\* allocate calls with a well-formed tenant, run and backend, each with every
\* ttlMs supplied
TtlRequests ==
    {[request EXCEPT !.ttlMs = <<v>>] :
        request \in {r \in AllocateRequests :
                        /\ TenantIdOf[r.tenantId] # Undef
                        /\ RunIdOf[r.runId] # Undef
                        /\ r.backend = Undef},
        v \in TtlInputs}

\* the backend has room for the lease, or the (tenant, run) holds one already
HasRoom(request) ==
    \/ options.maxActiveSimulatorLeases = <<>>
    \/ Cardinality(ActiveIds) < options.maxActiveSimulatorLeases[1]
    \/ \E id \in ActiveIds :
          /\ leases[id].tenantId = TenantIdOf[request.tenantId]
          /\ leases[id].runId = RunIdOf[request.runId]

\* the lease an allocate returned is stored with heartbeatAt = now and
\* expiresAt = now + ttl
RecordedWith(out, ttl) ==
    /\ out.res.ok
    /\ out.res.lease.leaseId \in DOMAIN out.leases
    /\ out.leases[out.res.lease.leaseId] = out.res.lease
    /\ out.res.lease.heartbeatAt = now
    /\ out.res.lease.expiresAt = now + ttl

\* C16 as stated: for every ttlMs supplied to allocate, below min and above
\* max included, the lease is recorded with heartbeatAt = now and
\* expiresAt = now + clamp(ttlMs, min, max), min = 5 s and max = 600 s by
\* default.
AllocateClampsTtl ==
    \A request \in TtlRequests :
        HasRoom(request) =>
            RecordedWith(allocateLease(request),
                         Clamp(request.ttlMs[1], LowestTtl, HighestTtl))

\* C16, amended: for every ttlMs supplied to allocate within [min, max] the
\* lease is recorded with heartbeatAt = now and expiresAt = now + ttlMs; a
\* ttlMs below min or above max is refused with INVALID_ARGS, and the call
\* records no lease and refreshes none; min = 5 s and max = 600 s by default.
AllocateBoundsTtl ==
    \A request \in TtlRequests :
        LET out == allocateLease(request)
            ttlMs == request.ttlMs[1]
        IN  HasRoom(request) =>
                IF LowestTtl <= ttlMs /\ ttlMs <= HighestTtl
                THEN RecordedWith(out, ttlMs)
                ELSE /\ ~out.res.ok
                     /\ out.res.code = "INVALID_ARGS"
                     /\ OnlySwept(out)

\* an allocate has supplied a ttlMs under the default minimum and was refused,
\* after one with a ttlMs at the minimum was recorded with it
TtlBelowMinimumRefused ==
    /\ call.op = "allocateLease"
    /\ call.ttlMs = <<3>>
    /\ options.minLeaseTtlMs = <<>>
    /\ call.res = Thrown("INVALID_ARGS", "")
    /\ \E id \in DOMAIN leases : leases[id].expiresAt = leases[id].heartbeatAt + 5000

----------------------------------------------------------------------------
(* The capacity cap, over LeaseSpec *)

\* the unexpired leases of the ios-simulator backend
ActiveSimulatorIds == {id \in ActiveIds : leases[id].backend = IosSimulator}

\* C17: when a positive cap N is configured and N unexpired ios-simulator
\* leases exist, a well-formed allocate for a (tenant, run) that holds no
\* active lease fails with COMMAND_FAILED and reason LEASE_CAPACITY_EXCEEDED
\* and creates no lease; when no positive cap is configured (none, or 0), no
\* allocate is rejected for capacity.
CapacityCap ==
    \A request \in AllocateRequests :
        LET out == allocateLease(request)
            cap == options.maxActiveSimulatorLeases
            positive == cap # <<>> /\ cap[1] > 0
            wellFormed ==
                /\ TenantIdOf[request.tenantId] # Undef
                /\ RunIdOf[request.runId] # Undef
                /\ normalizeLeaseBackend(request.backend).ok
                /\ \/ request.ttlMs = <<>>
                   \/ LowestTtl <= request.ttlMs[1] /\ request.ttlMs[1] <= HighestTtl
            holds == \E id \in ActiveIds :
                        /\ leases[id].tenantId = TenantIdOf[request.tenantId]
                        /\ leases[id].runId = RunIdOf[request.runId]
        IN  /\ (/\ wellFormed
                /\ positive
                /\ Cardinality(ActiveSimulatorIds) >= cap[1]
                /\ ~holds)
               => /\ out.res = Thrown("COMMAND_FAILED", "LEASE_CAPACITY_EXCEEDED")
                  /\ DOMAIN out.leases = ActiveIds
                  /\ out.minted = minted
                  /\ \A id \in ActiveIds : out.leases[id] = leases[id]
            /\ ~positive
               => /\ out.res.reason # "LEASE_CAPACITY_EXCEEDED"
                  /\ wellFormed => out.res.ok

\* an allocate was refused for capacity while as many unexpired leases as the
\* cap were stored
CapacityRefused ==
    /\ call.op = "allocateLease"
    /\ call.res = Thrown("COMMAND_FAILED", "LEASE_CAPACITY_EXCEEDED")
    /\ options.maxActiveSimulatorLeases # <<>>
    /\ Cardinality(ActiveSimulatorIds) = options.maxActiveSimulatorLeases[1]

----------------------------------------------------------------------------
(* The dispatcher behind the handler groups, over SessionSpec *)

\* the session a request is handled against
EffectiveName(req) ==
    LET name == IF req.session = Undef THEN <<"default">> ELSE req.session IN
    IF IsolationOf(req) = "tenant" /\ TenantOf(req) # Undef
    THEN TenantOf(req) \o <<":">> \o name ELSE name

\* C18: the dispatcher is called only if a session with the effective name
\* exists and the capability matrix reports the command supported on that
\* session's device; a command that no handler group claims, once it has
\* passed the checks before the handler groups, is answered with
\* SESSION_NOT_FOUND when there is no such session and with
\* UNSUPPORTED_OPERATION when the command is not supported, the dispatcher not
\* called and the session's journal as it was.
DispatchIsGuarded ==
    \A req \in Requests \cup SessionRequests : \A deviceOk \in BOOLEAN :
        LET out == handleRequest(req, deviceOk)
            command == normalizeAliasedCommands(req).command
            name == EffectiveName(req)
            exists == name \in DOMAIN sessions
            supported == exists /\ isCommandSupportedOnDevice(command, sessions[name].device)
            unclaimed == command \in {"keyboard", "home"}
        IN  /\ "dispatch" \in out.stages => unclaimed /\ exists /\ supported
            /\ (unclaimed /\ "handlers" \in out.stages /\ ~exists)
               => /\ out.response = [ok |-> FALSE, code |-> "SESSION_NOT_FOUND",
                                     reason |-> ""]
                  /\ "dispatch" \notin out.stages
                  /\ out.sessions = sessions
            /\ (unclaimed /\ "handlers" \in out.stages /\ exists /\ ~supported)
               => /\ out.response = [ok |-> FALSE, code |-> "UNSUPPORTED_OPERATION",
                                     reason |-> ""]
                  /\ "dispatch" \notin out.stages
                  /\ out.sessions = sessions
            /\ (unclaimed /\ "handlers" \in out.stages /\ supported)
               => "dispatch" \in out.stages

\* a command that its session's device does not support was refused and the
\* dispatcher was not called
UnsupportedRefused ==
    /\ last.response.code = "UNSUPPORTED_OPERATION"
    /\ "handlers" \in last.stages
    /\ "dispatch" \notin last.stages
    /\ DOMAIN sessions # {}

----------------------------------------------------------------------------
(* Sessions and their handles, over SessionSpec *)

\* the stop calls expected of a close of the session: its recording, then
\* its log stream, each made while the session is in the store
ExpectedStops(name) ==
    (IF sessions[name].recording
     THEN <<[kind |-> "recording", stored |-> TRUE]>> ELSE <<>>)
    \o (IF sessions[name].appLog THEN <<[kind |-> "appLog", stored |-> TRUE]>> ELSE <<>>)

\* C19: a successful close of a session stops its active recording and then
\* its active app-log stream, both before the session entry is deleted; after
\* it the session is absent from the store and no recording or log-stream
\* handle of it is active, the handles of other sessions being as they were;
\* and no handle of a session that is not in the store is ever active.
CloseStopsHandles ==
    /\ \A h \in handles :
          /\ h.session \in DOMAIN sessions
          /\ IF h.kind = "recording" THEN sessions[h.session].recording
             ELSE sessions[h.session].appLog
    /\ \A req \in SessionRequests :
          LET out == handleRequest(req, TRUE)
              name == EffectiveName(req)
          IN  (req.command = "close" /\ name \in DOMAIN sessions /\ out.response.ok)
              => /\ out.stopCalls = ExpectedStops(name)
                 /\ name \notin DOMAIN out.sessions
                 /\ out.handles = {h \in handles : h.session # name}

\* a session that was recording and streaming its app log has been closed
RecordingSessionClosed ==
    /\ Len(stopCalls) = 2
    /\ stopCalls[1].kind = "recording"
    /\ stopCalls[2].kind = "appLog"
    /\ last.response.ok
    /\ handles = {}
    /\ DOMAIN sessions = {}

\* C20: an open for a session that is not in the store, whose resolved target
\* device is bound to a session of another name, fails with DEVICE_IN_USE
\* before the readiness check: no open is suspended at the check, no session
\* is created, and the session that holds the device is as it was. (Under
\* tenant isolation the open is one that lease admission lets through.)
OpenOnBusyDeviceFails ==
    \A req \in SessionRequests \cup OpenCloseRequests :
        LET out == handleRequest(req, TRUE)
            name == EffectiveName(req)
            device == resolveTargetDevice(req.flags)
            holders == {n \in DOMAIN sessions \ {name} :
                          sessions[n].device.id = device.id}
        IN  (/\ req.command = "open"
             /\ name \notin DOMAIN sessions
             /\ holders # {}
             /\ IsolationOf(req) = "tenant" => MatchesUnexpiredLease(req))
            => /\ out.response = [ok |-> FALSE, code |-> "DEVICE_IN_USE", reason |-> ""]
               /\ out.opening = opening
               /\ out.sessions = sessions
               /\ out.handles = handles

\* an open was refused because another session held the device
BusyDeviceRefused ==
    /\ last.response.code = "DEVICE_IN_USE"
    /\ opening = {}
    /\ Cardinality(DOMAIN sessions) = 1

\* the stored sessions of tenant a: those named "a:<name>", which only opens
\* under tenant isolation create (no other open of the model names a session
\* so)
TenantSessionNames ==
    {name \in DOMAIN sessions : Len(name) > 2 /\ SubSeq(name, 1, 2) = <<"a", ":">>}

\* requests that go for the session of tenant a: of the tenant itself with
\* its lease and without one, of another tenant, and of clients without
\* isolation, by the default name and by the name the session is stored under
AddressingRequests ==
    {DaemonRequest(Token, c, n, NoMeta, NoFlags) :
        c \in {"close", "home", "click"},
        n \in {Undef, <<"a", ":">> \o Default}}
    \cup {DaemonRequest(Token, c, n, Scoped(t, id), NoFlags) :
            c \in {"close", "home", "click"},
            n \in {Undef, <<"a", ":">> \o Default},
            t \in {TenantA, TenantB},
            id \in {Undef, LeaseIdOf(1)}}

\* C30: a session created under tenant isolation for a tenant is read, used
\* or closed only by requests that are tenant-scoped to that tenant and pass
\* lease admission; no request of another tenant and no request without
\* isolation addresses it, whatever session name it supplies
TenantSessionsArePrivate ==
    \A req \in AddressingRequests :
        LET out == handleRequest(req, TRUE) IN
        \A name \in Touched(out) \cap TenantSessionNames :
            /\ IsolationOf(req) = "tenant"
            /\ TenantOf(req) = TenantA
            /\ MatchesUnexpiredLease(req)

----------------------------------------------------------------------------
(* The run-binding index, over LeaseSpec *)

\* the (tenant, run, backend) of a stored lease
ScopeOf(lease) == <<lease.tenantId, lease.runId, lease.backend>>

\* C31: after any sequence of allocate, heartbeat, release, admission and
\* list calls and clock ticks, no two stored leases have the same (tenant,
\* run, backend), and runBindings maps a key to a lease id exactly when a
\* lease with that id is stored whose (tenant, run, backend) makes that key.
OneLeasePerRunBinding ==
    /\ \A a \in DOMAIN leases : \A b \in DOMAIN leases :
          ScopeOf(leases[a]) = ScopeOf(leases[b]) => a = b
    /\ \A id \in DOMAIN leases :
          /\ leases[id].leaseId = id
          /\ leases[id].tenantId \o <<":">> \o leases[id].runId \o <<":">>
                \o leases[id].backend \in DOMAIN runBindings
          /\ runBindings[leases[id].tenantId \o <<":">> \o leases[id].runId
                \o <<":">> \o leases[id].backend] = id
    /\ \A k \in DOMAIN runBindings :
          /\ runBindings[k] \in DOMAIN leases
          /\ k = leases[runBindings[k]].tenantId \o <<":">>
                \o leases[runBindings[k]].runId \o <<":">>
                \o leases[runBindings[k]].backend

\* an allocate has swept an expired lease and stored a newly minted one
AllocatedAfterSweep ==
    /\ call.op = "allocateLease"
    /\ call.res.ok
    /\ call.swept # {}
    /\ call.res.lease.leaseId \notin call.swept
    /\ call.res.lease.createdAt = now
    /\ call.res.lease.leaseId \in DOMAIN leases

----------------------------------------------------------------------------
(* Expiry frees capacity, over CapacitySpec *)

\* registries with a positive cap: one slot, and as many as the model mints
CappedOptions ==
    {[maxActiveSimulatorLeases |-> <<cap>>, defaultLeaseTtlMs |-> <<2>>,
      minLeaseTtlMs |-> <<1>>, maxLeaseTtlMs |-> <<2>>] : cap \in {1, MaxLeases}}

CapacityInit ==
    /\ options \in CappedOptions
    /\ RegistryInit
    /\ call = NoCall
    /\ IdlePipeline
    /\ NoLaunch
    /\ NoConnection
    /\ NoShutdown

CapacitySpec == CapacityInit /\ [][LeaseNext]_vars

\* the stored leases whose expiresAt the clock has reached
LapsedStored == {id \in DOMAIN leases : leases[id].expiresAt <= now}

\* C38: with a positive cap N the stored leases never number more than N,
\* and when N leases are stored of which at least one has reached its
\* expiresAt, a well-formed allocate for a (tenant, run) that no stored lease
\* has succeeds: it mints a lease, stores it, and the expired leases are gone.
ExpiryFreesCapacity ==
    LET cap == options.maxActiveSimulatorLeases
        positive == cap # <<>> /\ cap[1] > 0
    IN  positive =>
        /\ Cardinality(DOMAIN leases) <= cap[1]
        /\ (Cardinality(DOMAIN leases) = cap[1] /\ LapsedStored # {})
           => \A request \in AllocateRequests :
                 LET out == allocateLease(request)
                     wellFormed ==
                         /\ TenantIdOf[request.tenantId] # Undef
                         /\ RunIdOf[request.runId] # Undef
                         /\ normalizeLeaseBackend(request.backend).ok
                         /\ \/ request.ttlMs = <<>>
                            \/ LowestTtl <= request.ttlMs[1]
                                  /\ request.ttlMs[1] <= HighestTtl
                     new == \A id \in DOMAIN leases :
                               \/ leases[id].tenantId # TenantIdOf[request.tenantId]
                               \/ leases[id].runId # RunIdOf[request.runId]
                 IN  (wellFormed /\ new)
                     => /\ out.res.ok
                        /\ out.minted = minted + 1
                        /\ out.res.lease.leaseId \notin DOMAIN leases
                        /\ out.res.lease.leaseId \in DOMAIN out.leases
                        /\ out.res.lease.createdAt = now
                        /\ DOMAIN out.leases \cap LapsedStored = {}
                        /\ Cardinality(DOMAIN out.leases) <= cap[1]

\* under a cap that was reached, an allocate has taken the slot of a lease
\* that had expired and that nobody released
SlotOfExpiredLeaseTaken ==
    /\ options.maxActiveSimulatorLeases # <<>>
    /\ options.maxActiveSimulatorLeases[1] > 0
    /\ call.op = "allocateLease"
    /\ call.res.ok
    /\ call.res.lease.createdAt = now
    /\ call.swept # {}
    /\ call.swept \cap releasedIds = {}
    /\ Cardinality(DOMAIN leases) = options.maxActiveSimulatorLeases[1]

----------------------------------------------------------------------------
(* What a refresh changes, over CapacitySpec *)

\* the registry after a call holds lease id with nothing changed but its
\* heartbeatAt and expiresAt, and every other unexpired lease as it was
OnlyTimesOf(id, out) ==
    /\ id \in ActiveIds
    /\ id \in DOMAIN out.leases
    /\ out.leases[id].leaseId = leases[id].leaseId
    /\ out.leases[id].tenantId = leases[id].tenantId
    /\ out.leases[id].runId = leases[id].runId
    /\ out.leases[id].backend = leases[id].backend
    /\ out.leases[id].createdAt = leases[id].createdAt
    /\ out.leases[id].heartbeatAt = now
    /\ out.res.lease = out.leases[id]
    /\ DOMAIN out.leases = ActiveIds
    /\ \A other \in ActiveIds \ {id} : out.leases[other] = leases[other]

\* C39: a heartbeat that succeeds, and an allocate that succeeds without
\* minting (an idempotent re-allocate), leave the leaseId, tenantId, runId,
\* backend and createdAt of the lease they name as they were, changing only
\* its heartbeatAt and expiresAt, and modify no other unexpired lease.
RefreshChangesOnlyTimes ==
    /\ \A request \in HeartbeatRequests :
          LET out == heartbeatLease(request) IN
          out.res.ok => OnlyTimesOf(LeaseIdFor[request.leaseId], out)
    /\ \A request \in AllocateRequests :
          LET out == allocateLease(request) IN
          (out.res.ok /\ out.minted = minted)
          => OnlyTimesOf(out.res.lease.leaseId, out)

\* a heartbeat has refreshed a lease created at an earlier tick while another
\* lease was held
HeartbeatBesideAnotherLease ==
    /\ call.op = "heartbeatLease"
    /\ call.res.ok
    /\ call.res.lease.createdAt < now
    /\ call.res.lease.heartbeatAt = now
    /\ \E other \in ActiveIds : other # call.target

----------------------------------------------------------------------------
(* Lines and responses of a connection, over FramingSpec *)

\* the lines of the client that the daemon has received
Received == {i \in 1..Len(FramedLines) : i <= Len(FramedLines) - Len(unsent)}
Count(seq, x) == Cardinality({i \in 1..Len(seq) : seq[i] = x})
Responses32(n) == Cardinality({i \in 1..Len(written) : written[i].n = n})

\* line i is in the buffer or has been taken from it once, never both and
\* never twice, and has at most one response; it has exactly one when its
\* handling is over and the connection is open
AnsweredOnce(i) ==
    LET line == FramedLines[i] IN
    /\ Count(buffer, line) + Count(begun, line.n) = 1
    /\ Responses32(line.n) <= 1
    /\ Responses32(line.n) = 1 => (Count(begun, line.n) = 1 /\ line \notin awaiting)
    /\ (Count(begun, line.n) = 1 /\ line \notin awaiting /\ ~destroyed)
       => Responses32(line.n) = 1

\* C32 (as amended): every received line that is not empty once white space
\* is trimmed from it, malformed JSON and lines arriving while an earlier
\* request is being handled included, is taken from the buffer exactly once
\* and gets exactly one response line as long as the connection is open; a
\* line of white space only is skipped and gets none.
NonBlankLineAnsweredOnce ==
    \A i \in Received :
        IF \E k \in 1..Len(FramedLines[i].text) : FramedLines[i].text[k] # " "
        THEN AnsweredOnce(i)
        ELSE Count(begun, FramedLines[i].n) = 0 /\ Responses32(FramedLines[i].n) = 0

\* C32 (as stated): every received non-empty line is processed exactly once
\* and gets exactly one response line as long as the connection is open.
NonEmptyLineAnsweredOnce ==
    \A i \in Received : Len(FramedLines[i].text) > 0 => AnsweredOnce(i)

\* on an open connection the malformed line was answered with its error while
\* the first request was still being handled, and a later request, received
\* meanwhile, has been answered as well
MalformedAnsweredWhileBusy ==
    /\ ~destroyed
    /\ FramedLines[1] \in awaiting
    /\ \E i \in 1..Len(written) :
          written[i] = [n |-> 2, response |-> [ok |-> FALSE, code |-> "UNKNOWN",
                                               reason |-> ""]]
    /\ \E i \in 1..Len(written) : written[i].n = 4 /\ written[i].response.ok

----------------------------------------------------------------------------
(* The drain is single-shot, over ShutdownSpec *)

\* the triggers whose call of shutdown went on to closeServers
DrainsBegun == {i \in 1..Len(triggers) : triggers[i].ran}

\* C33: however many of SIGINT, SIGTERM, SIGHUP and uncaught exceptions
\* arrive, before or during the drain, at most one call of shutdown goes past
\* the shuttingDown test, it is the first, and no step of the drain is done
\* twice.
DrainRunsAtMostOnce ==
    /\ Cardinality(DrainsBegun) <= 1
    /\ DrainsBegun \subseteq {1}
    /\ triggers # <<>> => DrainsBegun = {1} /\ shuttingDown
    /\ \A i \in 1..Len(drained) : \A j \in 1..Len(drained) :
          drained[i] = drained[j] => i = j
    /\ drained # <<>> => DrainsBegun = {1}

\* a second trigger arrived after the servers had closed and before the exit,
\* and the daemon has exited after one drain
TriggeredDuringDrain ==
    /\ Len(triggers) >= 2
    /\ triggers[2].at = 2
    /\ ~triggers[2].ran
    /\ exitCode = 0
    /\ drained = <<"servers", "journals", "runners", "info", "lock">>

----------------------------------------------------------------------------
(* Startup: daemon.ts writeInfo, and a client reading daemon.json *)

\* the fields of the object writeInfo serialises, in the order of the text
InfoFields ==
    <<"port", "httpPort", "transport", "token", "pid", "version", "codeSignature",
      "processStartTime", "stateDir">>

StartupBecomes(f) ==
    /\ startup' = f
    /\ UNCHANGED <<registryVars, call, sessionVars, lockFile, infoFile, daemons,
                   socketVars, shutdownVars>>

\* writeInfo, lines 288-289: the state directory exists and the log file is
\* truncated
TruncateLog ==
    /\ startup.pc = "listening"
    /\ StartupBecomes([startup EXCEPT !.pc = "logged"])

\* fs.writeFileSync(infoPath, ...), lines 295-315: the open with flag 'w'
\* creates the file or truncates the one that is there
OpenInfo ==
    /\ startup.pc = "logged"
    /\ StartupBecomes([startup EXCEPT !.pc = "opened", !.exists = TRUE, !.by = Self,
                                      !.fields = 0])

\* fs.writeFileSync: the writes that follow the open; each write takes the
\* text up to some later position, the last one to its end
WriteInfoText(k) ==
    /\ startup.pc = "opened"
    /\ k > startup.fields
    /\ k <= Len(InfoFields)
    /\ StartupBecomes([startup EXCEPT
                          !.fields = k,
                          !.pc = IF k = Len(InfoFields) THEN "written" ELSE "opened"])

\* start, lines 520-521: the ports are printed
PrintPorts ==
    /\ startup.pc = "written"
    /\ StartupBecomes([startup EXCEPT !.pc = "serving"])

\* readJsonFile: null (<<>>) for a file that is absent or whose text JSON.parse
\* rejects, as it does every proper prefix of the text of an object
readJsonFile(f) ==
    IF ~f.exists THEN <<>>
    ELSE IF f.fields < Len(InfoFields) THEN <<>>
    ELSE <<[token |-> "token", port |-> IF f.mode = "http" THEN 0 ELSE 1,
            httpPort |-> IF f.mode = "socket" THEN 0 ELSE 2, pid |-> f.by]>>

\* readDaemonInfo: null unless the data has a token and a port
readDaemonInfo(f) ==
    LET data == readJsonFile(f) IN
    IF data = <<>> THEN <<>>
    ELSE IF data[1].token = "" THEN <<>>
    ELSE IF ~(data[1].port > 0) /\ ~(data[1].httpPort > 0) THEN <<>>
    ELSE data

\* a client reads daemon.json: what is on disk at that moment, and what
\* readDaemonInfo makes of it
ClientReadsInfo ==
    /\ startup.pc # "idle"
    /\ Len(startup.reads) < MaxReads
    /\ StartupBecomes([startup EXCEPT !.reads =
            Append(@, [at |-> startup.pc, exists |-> startup.exists,
                       fields |-> startup.fields, by |-> startup.by,
                       info |-> readDaemonInfo(startup)])])

\* a daemon that holds the lock and whose servers listen, in any of the three
\* server modes; the state directory holds no daemon.json, or the one that a
\* daemon that has died left behind
StartupInit ==
    /\ options = DaemonOptions
    /\ RegistryInit
    /\ call = NoCall
    /\ IdlePipeline
    /\ lockFile = OwnLock
    /\ infoFile = {}
    /\ daemons = EmptyMap
    /\ startup \in {[NoStartup EXCEPT !.pc = "listening", !.mode = mode,
                                      !.exists = old, !.by = IF old THEN DeadPid ELSE 0,
                                      !.fields = IF old THEN Len(InfoFields) ELSE 0] :
                      mode \in {"socket", "http", "dual"}, old \in BOOLEAN}
    /\ NoConnection
    /\ NoShutdown

StartupNext ==
    \/ TruncateLog
    \/ OpenInfo
    \/ \E k \in 1..Len(InfoFields) : WriteInfoText(k)
    \/ PrintPorts
    \/ ClientReadsInfo

StartupSpec == StartupInit /\ [][StartupNext]_vars

\* C34: a client that reads daemon.json at any moment of the daemon's startup
\* finds no file or the complete metadata (ports, token, pid, process start
\* time, version, code signature, state dir), never an empty or partial file.
InfoWrittenAtomically ==
    \A i \in 1..Len(startup.reads) :
        \/ ~startup.reads[i].exists
        \/ startup.reads[i].fields = Len(InfoFields)

----------------------------------------------------------------------------
(* Requests without tenant isolation, over SessionSpec *)

\* requests whose sessionIsolation is absent or none, with every tenant input
\* in meta.tenantId and an absent, a well-formed and a malformed flags.tenant
UnisolatedRequests ==
    {DaemonRequest(Token, c, n, Meta(t, Undef, Undef, iso), Flags(ft, Undef, Undef)) :
        c \in {"open", "home"}, n \in {Undef, Named},
        t \in TenantInputs, ft \in {Undef, TenantB, BadTenant}, iso \in {Undef, NoneMode}}

\* the request passes tenant scoping as it is and goes on past it: no
\* validation error, no lease admission, and no session touched but the one
\* it names
PassesUnscoped(req) ==
    LET out == handleRequest(req, TRUE) IN
    /\ scopeRequestSession(req) = [ok |-> TRUE, req |-> req]
    /\ out.stages # {"scope"}
    /\ "admission" \notin out.stages
    /\ out.leases = leases
    /\ Touched(out) \subseteq {IF req.session = Undef THEN <<"default">> ELSE req.session}

\* the tenant id the request supplies (meta.tenantId ?? flags.tenant) is
\* non-empty and malformed
SuppliesMalformedTenant(req) ==
    LET rawTenant == IF req.meta.tenantId # Undef THEN req.meta.tenantId
                     ELSE req.flags.tenant
    IN  /\ rawTenant # Undef
        /\ rawTenant # <<>>
        /\ \/ Trim(rawTenant) = <<>>
           \/ \E i \in 1..Len(Trim(rawTenant)) : Trim(rawTenant)[i] \notin IdChars

\* C35 (as amended): when sessionIsolation is not tenant, tenant scoping
\* leaves the request unchanged unless the tenant id it supplies
\* (meta.tenantId, or else flags.tenant) is non-empty and malformed: the
\* session name is not rewritten, no tenant validation error is raised and no
\* lease admission is performed; a malformed tenant id is refused with
\* INVALID_ARGS, nothing else of the pipeline running.
UnisolatedPassesUnlessMalformed ==
    \A req \in UnisolatedRequests :
        IF SuppliesMalformedTenant(req)
        THEN LET out == handleRequest(req, TRUE) IN
             /\ out.response = [ok |-> FALSE, code |-> "INVALID_ARGS", reason |-> ""]
             /\ out.stages = {"scope"}
             /\ Touched(out) = {}
        ELSE PassesUnscoped(req)

\* C35 (as stated): when sessionIsolation is not tenant, tenant scoping leaves
\* the request unchanged for every value of meta.tenantId and flags.tenant.
UnisolatedPassesUnchanged ==
    \A req \in UnisolatedRequests : PassesUnscoped(req)

\* a request that names a tenant and no isolation has been served: its lease
\* was allocated, with no admission and with the sessions under unscoped names
UnisolatedTenantServed ==
    /\ minted >= 1
    /\ DOMAIN leases # {}
    /\ last.response.ok
    /\ "admission" \notin last.stages
    /\ "handlers" \in last.stages
    /\ DOMAIN sessions = {<<"default">>}

----------------------------------------------------------------------------
(* A daemon request that exceeds the client timeout, over TimeoutSpec *)

\* the request timeouts of one client that are followed
MaxTimeouts == 2

\* what a timeout finds and leaves: the state directory, the running
\* processes and whether runner builds of xcodebuild are running
Seen(b) == [info |-> b.info, lock |-> b.lock, alive |-> b.alive, builds |-> b.builds]

\* a reset that removes the files and spares the daemon
resetDaemonAfterTimeoutSparing(b, info) ==
    [b EXCEPT !.info = <<>>, !.lock = <<>>]

\* cleanupTimedOutIosRunnerBuilds: pkill -f for each of the runner build
\* patterns
cleanupTimedOutIosRunnerBuilds(b) == [b EXCEPT !.builds = FALSE]

\* resetDaemonAfterTimeout: SIGKILL for info.pid if it is a running daemon,
\* and in every case removeDaemonInfo and removeDaemonLock; for a pid that is
\* gone the stop in the catch branch sends no signal
resetDaemonAfterTimeout(b, info) ==
    IF info.pid \in b.alive
    THEN [b EXCEPT !.alive = b.alive \ {info.pid},
                   !.up = b.up \ {info.pid},
                   !.info = <<>>,
                   !.lock = <<>>]
    ELSE [b EXCEPT !.info = <<>>, !.lock = <<>>]

\* the timeout callback of sendSocketRequest and of sendHttpRequest: the
\* runner builds are swept, the daemon is reset, the call is rejected
RequestTimedOut ==
    /\ bootstrap.pc = "sent"
    /\ Len(bootstrap.timeouts) < MaxTimeouts
    /\ LET info == bootstrap.sent
           swept == cleanupTimedOutIosRunnerBuilds(bootstrap)
           reset == resetDaemonAfterTimeout(swept, info)
       IN  bootstrap' =
              [reset EXCEPT !.pc = "timedOut",
                            !.sent = <<>>,
                            !.timeouts = Append(bootstrap.timeouts,
                                                [pid |-> info.pid,
                                                 before |-> Seen(bootstrap),
                                                 after |-> Seen(reset)])]

\* the daemon answers before the timeout
Responded ==
    /\ bootstrap.pc = "sent"
    /\ bootstrap.sent.pid \in bootstrap.up
    /\ bootstrap' = [bootstrap EXCEPT !.pc = "done", !.sent = <<>>]

\* the daemon, handling the request, starts a runner build
RunnerBuildStarted ==
    /\ bootstrap.pc = "sent"
    /\ bootstrap.sent.pid \in bootstrap.up
    /\ ~bootstrap.builds
    /\ bootstrap' = [bootstrap EXCEPT !.builds = TRUE]

\* the daemon dies with the request in flight, leaving metadata and lock
DaemonDied ==
    /\ bootstrap.pc = "sent"
    /\ bootstrap.sent.pid \in bootstrap.alive
    /\ bootstrap' = [bootstrap EXCEPT !.alive = bootstrap.alive \ {bootstrap.sent.pid},
                                      !.up = bootstrap.up \ {bootstrap.sent.pid}]

\* the client's next call of sendToDaemon after a timeout
NextCall ==
    /\ bootstrap.pc = "timedOut"
    /\ Len(bootstrap.timeouts) < MaxTimeouts
    /\ bootstrap' = [bootstrap EXCEPT !.pc = "init",
                                      !.existing = <<>>,
                                      !.existingReachable = FALSE,
                                      !.reused = FALSE,
                                      !.stops = <<>>,
                                      !.atLaunch = <<>>,
                                      !.elapsed = 0,
                                      !.windows = 0,
                                      !.result = <<>>]

TimeoutNext ==
    /\ \/ BootstrapStep
       \/ RequestTimedOut
       \/ Responded
       \/ RunnerBuildStarted
       \/ DaemonDied
       \/ NextCall
    /\ UNCHANGED <<registryVars, call, sessions, opening, last, handles, stopCalls,
                   batch, http, peers, lockVars, socketVars, shutdownVars>>

TimeoutSpec == BootstrapInit /\ [][TimeoutNext]_vars

\* the k-th timeout left no runner build running
BuildsSwept(k) == ~bootstrap.timeouts[k].after.builds

\* the k-th timeout killed the daemon the request was sent to, if it was
\* running, and removed metadata and lock
DaemonReset(k) ==
    LET t == bootstrap.timeouts[k]
    IN  /\ t.after.alive = t.before.alive \ {t.pid}
        /\ t.after.info = <<>>
        /\ t.after.lock = <<>>

\* the k-th timeout left the daemon and the files as they were
DaemonSpared(k) ==
    LET t == bootstrap.timeouts[k]
    IN  /\ t.after.alive = t.before.alive
        /\ t.after.info = t.before.info
        /\ t.after.lock = t.before.lock

\* C36, amended: when a daemon request exceeds the client timeout, the client
\* terminates the runner builds of xcodebuild, kills the daemon the request
\* was sent to if it is running, and removes the metadata and lock files, on
\* every timeout, the first included
TimeoutResetsDaemonEveryTime ==
    \A k \in 1..Len(bootstrap.timeouts) : BuildsSwept(k) /\ DaemonReset(k)

\* C36 as stated: when a daemon request exceeds the client timeout, the client
\* terminates the runner builds; it kills the daemon and removes the metadata
\* and lock files on a repeated timeout and not on a single one
TimeoutResetsDaemonOnlyWhenRepeated ==
    \A k \in 1..Len(bootstrap.timeouts) :
        /\ BuildsSwept(k)
        /\ IF k = 1 THEN DaemonSpared(k) ELSE DaemonReset(k)

\* the first request of a client timed out with a runner build and the daemon
\* running: the daemon was killed and its files removed
FirstTimeoutKilledDaemon ==
    /\ Len(bootstrap.timeouts) >= 1
    /\ bootstrap.timeouts[1].before.builds
    /\ bootstrap.timeouts[1].pid \in bootstrap.timeouts[1].before.alive
    /\ bootstrap.timeouts[1].before.info # <<>>
    /\ bootstrap.timeouts[1].pid \notin bootstrap.alive

----------------------------------------------------------------------------
(* The journal on the default-dispatch path, over SessionSpec *)

\* requests for the commands no handler group claims, in the default and the
\* named session and in the session of a tenant, with and without selectors
DispatchedRequests ==
    {req \in SessionRequests : req.command \in {"home", "keyboard"}}
    \cup {DaemonRequest(Token, c, Named, NoMeta, NoFlags) : c \in {"home", "keyboard"}}

\* the session a request is for, after scoping
SessionNamed(req) ==
    resolveEffectiveSessionName(scopeRequestSession(normalizeAliasedCommands(req)).req)

\* C37: on the default-dispatch path one entry is appended to the journal of
\* the request's session, and to no other, when the dispatcher call succeeds;
\* no entry is appended to any journal when the request fails at an earlier
\* stage or the dispatcher call fails
JournalAppendedOnDispatchSuccess ==
    \A req \in DispatchedRequests : \A deviceOk \in BOOLEAN :
        \E out \in {handleRequest(req, deviceOk)} :
            IF out.response.ok
            THEN /\ deviceOk
                 /\ "dispatch" \in out.stages
                 /\ SessionNamed(req) \in DOMAIN sessions
                 /\ DOMAIN out.sessions = DOMAIN sessions
                 /\ \A name \in DOMAIN sessions :
                       /\ out.sessions[name].actions =
                             sessions[name].actions
                                + (IF name = SessionNamed(req) THEN 1 ELSE 0)
                       /\ [out.sessions[name] EXCEPT !.actions = 0]
                             = [sessions[name] EXCEPT !.actions = 0]
            ELSE out.sessions = sessions

\* a command was dispatched in a session beside another session: its journal
\* has the entry of the open and one more, the other journal only that of its
\* open
DispatchJournaled ==
    /\ last.response.ok
    /\ "dispatch" \in last.stages
    /\ "journal" \in last.stages
    /\ \E name \in DOMAIN sessions : sessions[name].actions = 2
    /\ \E name \in DOMAIN sessions : sessions[name].actions = 1

----------------------------------------------------------------------------
(* The counters of a connection and the canceled set, over PeersSpec *)

\* the ids of the requests being handled on connection c
InFlightIds(c) == {peers[c].awaiting[k] : k \in 1..Len(peers[c].awaiting)} \ {0}

\* C40: after any interleaving of request arrivals, completions and
\* disconnects, the in-flight counter of each socket connection equals the
\* number of that connection's requests being handled, never negative and
\* zero when none is, and the canceled set of the process holds only ids of
\* requests that are in flight
CountersMatchRequestsInFlight ==
    /\ \A c \in DOMAIN peers :
          /\ peers[c].inFlightRequests = Len(peers[c].awaiting)
          /\ peers[c].inFlightRequests >= 0
          /\ peers[c].awaiting = <<>> => peers[c].inFlightRequests = 0
    /\ canceledRequests \subseteq UNION {InFlightIds(c) : c \in DOMAIN peers}

\* connection 1 closed with a request in flight, which was marked canceled
\* and has completed: nothing is counted or marked for it, while connection 2
\* has a request in flight
MarkClearedOnCompletion ==
    /\ peers[1].closed
    /\ peers[1].canceledInFlight
    /\ peers[1].inFlightRequests = 0
    /\ peers[2].inFlightRequests = 1
    /\ ~peers[2].closed
    /\ canceledRequests = {}

====
